---- MODULE Spec2Model ----
(***************************************************************************)
(* A model of the tools subsystem of cerebras-chatgpt-cli:                 *)
(*   - ToolParameter.validate and Tool.validate_parameters                  *)
(*     (cerebras_cli/tools/base.py),                                        *)
(*   - the built-in tools' parameter declarations and result shapes         *)
(*     (cerebras_cli/tools/file_tools.py, shell_tools.py, code_tools.py),   *)
(*   - ToolRegistry (register, unregister, get_tool, list_tools,            *)
(*     execute_tool),                                                       *)
(*   - the REPL's intent detection, its '/tool' command and its            *)
(*     ConversationHistory (cerebras_cli/cli/repl.py),                      *)
(*   - ConfigManager.load_config (cerebras_cli/core/config.py),             *)
(*   - CerebrasClient._make_request (cerebras_cli/core/client.py).          *)
(*                                                                         *)
(* Python strings are sequences of one-character strings, so that parsing, *)
(* lower-casing and regular-expression search are computed character by    *)
(* character.  Python values are tagged records.                           *)
(***************************************************************************)
EXTENDS Integers, Sequences, FiniteSets, TLC

VARIABLES
    \* ToolParameter.validate / Tool.validate_parameters
    vmode,        \* which operation this run exercises
    param,        \* the ToolParameter descriptor under validation
    value,        \* the raw value handed to validate
    vresult,      \* what validate did: a return value or a raised exception
    paramAfter,   \* the descriptor as it is after the call
    vtool,        \* the built-in tool whose validate_parameters is called
    kwargs,       \* the raw parameter mapping
    validated,    \* what validate_parameters did
    \* ToolRegistry
    _tools,       \* ToolRegistry._tools: name -> Tool
    _categories,  \* ToolRegistry._categories: category -> list of names
    last,         \* the last registry call and what it returned or raised
    prev,         \* the registry call before it
    \* built-in tools
    call,         \* the tool call: tool name, validated parameters, environment
    result,       \* the ToolResult (or escaped exception) of the call
    \* REPL.detect_and_execute_tools
    user_input,   \* the text typed by the user
    pc,           \* position of the detector: "detect", "execute", "done"
    selected,     \* index in all_patterns of the rule that matched (0: none)
    evaluated,    \* indices of the rules whose pattern was searched
    toolCalls,    \* the calls of _execute_detected_tool: tool name, default_params
    tool_result,  \* what detect_and_execute_tools gave back to process_input
    messages,     \* ConversationHistory.messages
    request,      \* the messages handed to the client for the completion
    \* the file system and the two file tools working on it
    files,        \* path -> absent, a directory, or a regular file and its content
    writer,       \* FileWriteTool.execute: position, parameters, locals
    reader,       \* FileReadTool.execute: position, parameters, locals
    \* the operating system's processes and ShellCommandTool.execute
    procs,        \* the running processes of the command: "sh" is the shell
                  \* create_subprocess_shell starts, "child" a process the
                  \* command starts from it
    shell,        \* ShellCommandTool.execute: position, parameters, locals
    \* the process the tools run in
    cwd,          \* the process working directory (os.getcwd / os.chdir)
    python,       \* PythonExecuteTool.execute: position, parameters, effects
    \* ConfigManager.load_config
    config,       \* the sources of the configuration and the loaded Config
    \* the '/tool' command of the REPL
    tool_cmd,     \* REPL.execute_tool: the argument text, params, dispatches
    \* ConversationHistory
    history,      \* max_history, messages, and the messages added so far
    \* CerebrasClient._make_request
    client        \* attempt counter, POSTs made, the outcome

valVars    == <<vmode, param, value, vresult, paramAfter, vtool, kwargs, validated>>
regVars    == <<_tools, _categories, last, prev>>
toolVars   == <<call, result>>
intentVars == <<user_input, pc, selected, evaluated, toolCalls, tool_result,
                messages, request>>
fileVars   == <<files, writer, reader>>
shellVars  == <<procs, shell>>
osVars     == <<fileVars, shellVars>>
extVars    == <<cwd, python, config, tool_cmd, history, client>>
vars       == <<valVars, regVars, toolVars, intentVars, osVars, extVars>>

(***************************************************************************)
(* Python strings                                                          *)
(***************************************************************************)
Digits == <<"0", "1", "2", "3", "4", "5", "6", "7", "8", "9">>

IsDigit(c) == \E i \in 1..10 : Digits[i] = c

DigitVal(c) == (CHOOSE i \in 1..10 : Digits[i] = c) - 1

Uppers == <<"A","B","C","D","E","F","G","H","I","J","K","L","M",
            "N","O","P","Q","R","S","T","U","V","W","X","Y","Z">>

Lowers == <<"a","b","c","d","e","f","g","h","i","j","k","l","m",
            "n","o","p","q","r","s","t","u","v","w","x","y","z">>

\* str.lower() on one character (ASCII letters; other characters are kept)
LowerChar(c) ==
    IF \E i \in 1..26 : Uppers[i] = c
    THEN Lowers[CHOOSE i \in 1..26 : Uppers[i] = c]
    ELSE c

\* str.lower()
Lower(s) == CHOOSE r \in { [i \in 1..Len(x) |-> LowerChar(x[i])] : x \in {s} } : TRUE

\* str.isdigit() (ASCII digits): non-empty and all digits
StrIsDigit(s) == Len(s) > 0 /\ \A i \in 1..Len(s) : IsDigit(s[i])

RECURSIVE DigitsToNat(_)
DigitsToNat(s) ==
    IF Len(s) = 0 THEN 0
    ELSE 10 * DigitsToNat(SubSeq(s, 1, Len(s) - 1)) + DigitVal(s[Len(s)])

RECURSIVE NatToStr(_)
NatToStr(n) ==
    IF n < 10 THEN <<Digits[n + 1]>>
    ELSE NatToStr(n \div 10) \o <<Digits[(n % 10) + 1]>>

(***************************************************************************)
(* Python values                                                           *)
(***************************************************************************)
PyNone     == [t |-> "NoneType"]
PyStr(s)   == [t |-> "str", v |-> s]
PyInt(n)   == [t |-> "int", v |-> n]
PyBool(b)  == [t |-> "bool", v |-> b]
\* a float, held in thousandths: PyFloat(1500) is 1.5
PyFloat(m) == [t |-> "float", v |-> m]
\* a dict, held as its set of keys (only the empty dict is ever built here)
PyDict(ks) == [t |-> "dict", v |-> ks]

\* isinstance(value, type); bool is a subclass of int
IsInstance(val, type) ==
    \/ val.t = type
    \/ type = "int" /\ val.t = "bool"

\* Python truthiness, bool(value)
Truthy(val) ==
    CASE val.t = "NoneType" -> FALSE
      [] val.t = "str"      -> Len(val.v) > 0
      [] val.t = "int"      -> val.v # 0
      [] val.t = "bool"     -> val.v
      [] val.t = "float"    -> val.v # 0
      [] val.t = "dict"     -> val.v # {}

\* position of the first "." of s, 0 when there is none
DotPos(s) ==
    IF \E i \in 1..Len(s) : s[i] = "."
    THEN CHOOSE i \in 1..Len(s) : s[i] = "." /\ \A j \in 1..(i - 1) : s[j] # "."
    ELSE 0

AllDigits(s) == \A i \in 1..Len(s) : IsDigit(s[i])

\* float(s) accepts "12", "1.5", "1." and ".5" (no sign, exponent, blank,
\* inf or nan occurs in the strings used here)
FloatSyntax(s) ==
    LET d == DotPos(s) IN
    IF d = 0 THEN StrIsDigit(s)
    ELSE /\ AllDigits(SubSeq(s, 1, d - 1))
         /\ AllDigits(SubSeq(s, d + 1, Len(s)))
         /\ Len(s) > 1

\* the fractional digits f as thousandths (at most three digits)
FracThousandths(f) ==
    CASE Len(f) = 0 -> 0
      [] Len(f) = 1 -> 100 * DigitsToNat(f)
      [] Len(f) = 2 -> 10 * DigitsToNat(f)
      [] OTHER      -> DigitsToNat(SubSeq(f, 1, 3))

ParseFloat(s) ==
    LET d == DotPos(s) IN
    IF d = 0 THEN 1000 * DigitsToNat(s)
    ELSE 1000 * DigitsToNat(SubSeq(s, 1, d - 1))
         + FracThousandths(SubSeq(s, d + 1, Len(s)))

RECURSIVE StripZeros(_)
StripZeros(s) ==
    IF Len(s) > 1 /\ s[Len(s)] = "0" THEN StripZeros(SubSeq(s, 1, Len(s) - 1))
    ELSE s

\* repr of a float: whole part, ".", fraction without trailing zeros
FloatToStr(m) ==
    LET f  == m % 1000
        f3 == <<Digits[(f \div 100) + 1], Digits[((f \div 10) % 10) + 1],
                Digits[(f % 10) + 1]>>
    IN NatToStr(m \div 1000) \o <<".">> \o StripZeros(f3)

\* str(value)
ToStr(val) ==
    CASE val.t = "str"      -> val.v
      [] val.t = "int"      -> NatToStr(val.v)
      [] val.t = "bool"     -> IF val.v THEN <<"T","r","u","e">>
                               ELSE <<"F","a","l","s","e">>
      [] val.t = "float"    -> FloatToStr(val.v)
      [] val.t = "dict"     -> <<"{", "}">>
      [] val.t = "NoneType" -> <<"N","o","n","e">>

\* The outcome of calling a type on a value: self.type(value).
\* A call either returns a value or raises an exception of some class.
Returned(v) == [st |-> "returned", value |-> v]
Raised(e)   == [st |-> "raised", exc |-> e]
Pending     == [st |-> "pending"]

Convert(type, val) ==
    CASE type = "str"   -> Returned(PyStr(ToStr(val)))
      [] type = "bool"  -> Returned(PyBool(Truthy(val)))
      [] type = "int"   ->
            CASE val.t = "str"   -> IF StrIsDigit(val.v)
                                    THEN Returned(PyInt(DigitsToNat(val.v)))
                                    ELSE Raised("ValueError")
              [] val.t = "float" -> Returned(PyInt(val.v \div 1000))
              [] OTHER           -> Raised("TypeError")
      [] type = "float" ->
            CASE val.t = "str"  -> IF FloatSyntax(val.v)
                                   THEN Returned(PyFloat(ParseFloat(val.v)))
                                   ELSE Raised("ValueError")
              [] val.t = "int"  -> Returned(PyFloat(1000 * val.v))
              [] val.t = "bool" -> Returned(PyFloat(IF val.v THEN 1000 ELSE 0))
              [] OTHER          -> Raised("TypeError")
      [] type = "dict"  ->
            CASE val.t = "str" -> IF Len(val.v) = 0 THEN Returned(PyDict({}))
                                  ELSE Raised("ValueError")
              [] OTHER         -> Raised("TypeError")

(***************************************************************************)
(* ToolParameter and Tool.validate_parameters (tools/base.py)              *)
(***************************************************************************)
\* A ToolParameter descriptor (the description text has no effect).
ToolParameter(name, type, required, default) ==
    [name |-> name, type |-> type, required |-> required, default |-> default]

\* A str built by an f-string is held as its fragments: the literal text,
\* the interpolated names (of a parameter, a tool, a type, an exception
\* class) and the interpolated values.
Lit(s)  == [k |-> "lit", x |-> s]
Name(n) == [k |-> "name", x |-> n]
Val(v)  == [k |-> "val", x |-> v]

FStr(msg) == [t |-> "str", v |-> msg]

\* a ToolValidationError with its message
ValidationError(msg) ==
    [st |-> "raised", exc |-> "ToolValidationError", msg |-> msg]

\* validate without the check of `required`: an absent value always yields
\* the default
validate_NoRequiredCheck(p, val) ==
    IF val = PyNone
    THEN Returned(p.default)
    ELSE IF ~IsInstance(val, p.type)
         THEN LET c == Convert(p.type, val) IN
              IF c.st = "returned" THEN c
              ELSE ValidationError(<<Lit("Parameter '"), Name(p.name),
                                     Lit("' must be of type "), Name(p.type),
                                     Lit(": "), Name(c.exc)>>)
         ELSE Returned(val)

\* ToolParameter.validate(value)
validate(p, val) ==
    IF val = PyNone
    THEN IF p.required
         THEN ValidationError(<<Lit("Required parameter '"), Name(p.name), Lit("' is missing")>>)
         ELSE Returned(p.default)
    ELSE IF ~IsInstance(val, p.type)
         THEN LET c == Convert(p.type, val) IN
              IF c.st = "returned" THEN c
              ELSE ValidationError(<<Lit("Parameter '"), Name(p.name),
                                     Lit("' must be of type "), Name(p.type),
                                     Lit(": "), Name(c.exc)>>)
         ELSE Returned(val)

\* params.get(name): the value, or None for a missing key
DictGet(d, k) == IF k \in DOMAIN d THEN d[k] ELSE PyNone

\* the names of a parameter list
ParamNames(ps) == {ps[i].name : i \in 1..Len(ps)}

\* The loop of Tool.validate_parameters from parameter i on, with the
\* mapping built so far; an exception of validate ends the loop.
RECURSIVE ValidateLoop(_, _, _, _)
ValidateLoop(ps, kw, i, acc) ==
    IF i > Len(ps) THEN Returned(acc)
    ELSE LET r == validate(ps[i], DictGet(kw, ps[i].name)) IN
         IF r.st = "raised" THEN r
         ELSE ValidateLoop(ps, kw, i + 1,
                 [k \in (DOMAIN acc) \cup {ps[i].name} |->
                     IF k = ps[i].name THEN r.value ELSE acc[k]])

\* the empty dict
EmptyMap == [k \in {} |-> PyNone]

\* the keys validate_parameters warns about
Unexpected(ps, kw) == (DOMAIN kw) \ ParamNames(ps)

\* validate_parameters passing the undeclared keys through to the result
validate_parameters_KeepExtra(ps, kw) ==
    LET r == ValidateLoop(ps, kw, 1, EmptyMap) IN
    IF r.st = "raised" THEN r
    ELSE Returned([k \in (DOMAIN r.value) \cup (DOMAIN kw) |->
                      IF k \in DOMAIN r.value THEN r.value[k] ELSE kw[k]])

\* Tool.validate_parameters(params); the unexpected keys are only logged
validate_parameters(ps, kw) == ValidateLoop(ps, kw, 1, EmptyMap)

(***************************************************************************)
(* The built-in tools' declarations (_setup_parameters, name, category)    *)
(***************************************************************************)
s_utf8    == <<"u","t","f","-","8">>
s_dot     == <<".">>
s_default == <<"d","e","f","a","u","l","t">>

\* A Tool: its name, its category and its declared parameters.
Tool(name, category, params) ==
    [name |-> name, category |-> category, params |-> params]

FileReadTool ==
    Tool("file_read", "file",
         << ToolParameter("path", "str", TRUE, PyNone),
            ToolParameter("encoding", "str", FALSE, PyStr(s_utf8)),
            ToolParameter("max_size", "int", FALSE, PyInt(10 * 1024 * 1024)) >>)

FileWriteTool ==
    Tool("file_write", "file",
         << ToolParameter("path", "str", TRUE, PyNone),
            ToolParameter("content", "str", TRUE, PyNone),
            ToolParameter("encoding", "str", FALSE, PyStr(s_utf8)),
            ToolParameter("create_dirs", "bool", FALSE, PyBool(TRUE)),
            ToolParameter("backup", "bool", FALSE, PyBool(FALSE)) >>)

FileListTool ==
    Tool("file_list", "file",
         << ToolParameter("path", "str", FALSE, PyStr(s_dot)),
            ToolParameter("recursive", "bool", FALSE, PyBool(FALSE)),
            ToolParameter("show_hidden", "bool", FALSE, PyBool(FALSE)),
            ToolParameter("pattern", "str", FALSE, PyNone),
            ToolParameter("max_depth", "int", FALSE, PyInt(10)) >>)

ShellCommandTool ==
    Tool("shell_exec", "shell",
         << ToolParameter("command", "str", TRUE, PyNone),
            ToolParameter("cwd", "str", FALSE, PyNone),
            ToolParameter("timeout", "float", FALSE, PyFloat(30000)),
            ToolParameter("capture_output", "bool", FALSE, PyBool(TRUE)),
            ToolParameter("shell", "bool", FALSE, PyBool(TRUE)) >>)

DirectoryTool ==
    Tool("directory", "shell",
         << ToolParameter("operation", "str", TRUE, PyNone),
            ToolParameter("path", "str", FALSE, PyNone),
            ToolParameter("recursive", "bool", FALSE, PyBool(TRUE)),
            ToolParameter("force", "bool", FALSE, PyBool(FALSE)) >>)

CodeAnalysisTool ==
    Tool("code_analyze", "code",
         << ToolParameter("code", "str", FALSE, PyNone),
            ToolParameter("file_path", "str", FALSE, PyNone),
            ToolParameter("include_ast", "bool", FALSE, PyBool(FALSE)),
            ToolParameter("check_syntax", "bool", FALSE, PyBool(TRUE)) >>)

PythonExecuteTool ==
    Tool("python_exec", "code",
         << ToolParameter("code", "str", TRUE, PyNone),
            ToolParameter("timeout", "float", FALSE, PyFloat(10000)),
            ToolParameter("capture_output", "bool", FALSE, PyBool(TRUE)),
            ToolParameter("globals_dict", "dict", FALSE, PyNone) >>)

\* the tools registered in default_registry, in registration order
DefaultTools ==
    << FileReadTool, FileWriteTool, FileListTool, ShellCommandTool,
       DirectoryTool, CodeAnalysisTool, PythonExecuteTool >>

\* the two descriptors of TestToolParameter
TestRequiredParam == ToolParameter("test_param", "str", TRUE, PyNone)
TestOptionalParam == ToolParameter("test_param", "str", FALSE, PyStr(s_default))

(***************************************************************************)
(* Inputs of the validation runs                                           *)
(***************************************************************************)
\* the strings spec section 4.1 lists as meaning true, and their negatives
TrueWords  == { <<"t","r","u","e">>, <<"1">>, <<"y","e","s">>, <<"o","n">> }
FalseWords == { <<"f","a","l","s","e">>, <<"0">>, <<"n","o">>, <<"o","f","f">> }

\* string inputs: the listed words in several letter cases, and others
ValStrings ==
    { <<>>,
      <<"t","r","u","e">>,
      <<"T","R","U","E">>,
      <<"T","r","u","e">>,
      <<"1">>,
      <<"y","e","s">>,
      <<"Y","E","S">>,
      <<"o","n">>,
      <<"O","n">>,
      <<"f","a","l","s","e">>,
      <<"F","A","L","S","E">>,
      <<"F","a","l","s","e">>,
      <<"0">>,
      <<"n","o">>,
      <<"N","o">>,
      <<"o","f","f">>,
      <<"O","F","F">>,
      <<"1","2">>,
      <<"1",".","5">>,
      <<"a","b","c">> }

\* the raw values handed to ToolParameter.validate
Values ==
    {PyNone} \cup {PyStr(w) : w \in ValStrings}
    \cup {PyInt(0), PyInt(1), PyInt(12), PyBool(TRUE), PyBool(FALSE),
          PyFloat(0), PyFloat(1500), PyDict({})}

\* every descriptor a built-in tool declares, and the tests' two
Descriptors ==
    UNION {{DefaultTools[i].params[j] : j \in 1..Len(DefaultTools[i].params)} :
              i \in 1..Len(DefaultTools)}
    \cup {TestRequiredParam, TestOptionalParam}

\* at most this many keys in a raw parameter mapping
MaxKwargs == 2

\* the values of a raw parameter mapping
KwValues ==
    {PyNone, PyStr(<<>>), PyStr(<<"1">>), PyStr(<<"a","b","c">>),
     PyInt(5), PyBool(FALSE), PyFloat(1500)}

\* the keys of a raw parameter mapping for a tool: its declared names, the
\* key "input" REPL.execute_tool gives a positional argument, and another
KwKeys(tool) == ParamNames(tool.params) \cup {"input", "extra"}

\* the raw parameter mappings for a tool
KwargsOf(tool) ==
    UNION {[K -> KwValues] :
              K \in {S \in SUBSET KwKeys(tool) : Cardinality(S) <= MaxKwargs}}

(***************************************************************************)
(* Values of the variables a specification does not use                    *)
(***************************************************************************)
ValIdle ==
    /\ vmode = "idle"
    /\ param = TestRequiredParam
    /\ value = PyNone
    /\ vresult = Pending
    /\ paramAfter = TestRequiredParam
    /\ vtool = FileReadTool
    /\ kwargs = EmptyMap
    /\ validated = Pending

FileIdle ==
    /\ files = <<>>
    /\ writer = Pending
    /\ reader = Pending

ShellIdle ==
    /\ procs = {}
    /\ shell = Pending

CwdIdle     == cwd = <<>>
PyIdle      == python = Pending
ConfigIdle  == config = Pending
ToolCmdIdle == tool_cmd = Pending
HistoryIdle == history = Pending
ClientIdle  == client = Pending

ExtIdle ==
    CwdIdle /\ PyIdle /\ ConfigIdle /\ ToolCmdIdle /\ HistoryIdle /\ ClientIdle

RegIdle ==
    /\ _tools = <<>>
    /\ _categories = <<>>
    /\ last = [op |-> "none"]
    /\ prev = [op |-> "none"]

ToolIdle ==
    /\ call = [tool |-> "none"]
    /\ result = Pending

IntentIdle ==
    /\ user_input = <<>>
    /\ pc = "idle"
    /\ selected = 0
    /\ evaluated = {}
    /\ toolCalls = <<>>
    /\ tool_result = Pending
    /\ messages = <<>>
    /\ request = Pending

(***************************************************************************)
(* SpecValidate: one call of ToolParameter.validate, or one call of        *)
(* Tool.validate_parameters, on every input of the sets above              *)
(***************************************************************************)
InitValidate ==
    /\ \/ /\ vmode = "validate"
          /\ param \in Descriptors
          /\ value \in Values
          /\ vtool = FileReadTool
          /\ kwargs = EmptyMap
       \/ /\ vmode = "validate_parameters"
          /\ param = TestRequiredParam
          /\ value = PyNone
          /\ vtool \in {DefaultTools[i] : i \in 1..Len(DefaultTools)}
          /\ kwargs \in KwargsOf(vtool)
    /\ vresult = Pending
    /\ paramAfter = param
    /\ validated = Pending
    /\ ExtIdle /\ FileIdle /\ ShellIdle /\ RegIdle /\ ToolIdle /\ IntentIdle

\* param.validate(value): validate assigns no attribute of the descriptor
Validate ==
    /\ vmode = "validate"
    /\ vresult = Pending
    /\ vresult' = validate(param, value)
    /\ paramAfter' = param
    /\ UNCHANGED <<vmode, param, value, vtool, kwargs, validated>>
    /\ UNCHANGED <<extVars, osVars, regVars, toolVars, intentVars>>

\* tool.validate_parameters(kwargs)
ValidateParameters ==
    /\ vmode = "validate_parameters"
    /\ validated = Pending
    /\ validated' = validate_parameters(vtool.params, kwargs)
    /\ UNCHANGED <<vmode, param, value, vresult, paramAfter, vtool, kwargs>>
    /\ UNCHANGED <<extVars, osVars, regVars, toolVars, intentVars>>

NextValidate == Validate \/ ValidateParameters

SpecValidate == InitValidate /\ [][NextValidate]_vars

(***************************************************************************)
(* Claims about validation                                                 *)
(***************************************************************************)
\* a message, held as the fragments of its f-string, names x when x is one
\* of the interpolated fragments
Mentions(msg, x) == \E i \in 1..Len(msg) : msg[i].k = "name" /\ msg[i].x = x

\* a message holds the literal text l
MentionsText(msg, l) == \E i \in 1..Len(msg) : msg[i].k = "lit" /\ msg[i].x = l

ValidateDone == vmode = "validate" /\ vresult # Pending

\* C6: validate on an absent (None) value fails, for a required parameter,
\* with a validation error whose message names the parameter, and returns,
\* for an optional parameter, exactly the declared default; the descriptor is
\* the same after the call.
C6_AbsentValue ==
    (ValidateDone /\ value = PyNone) =>
        /\ param.required =>
              /\ vresult.st = "raised"
              /\ vresult.exc = "ToolValidationError"
              /\ Mentions(vresult.msg, param.name)
        /\ ~param.required => vresult = Returned(param.default)
        /\ paramAfter = param

\* C6 happens: a required parameter was validated against None
C6_Witness ==
    ValidateDone /\ value = PyNone /\ param.required /\ vresult.st = "raised"

\* the meaning spec section 4.1 gives a string for a boolean parameter
BoolMeaning(s) == Lower(s) \in TrueWords

HasBoolMeaning(s) == Lower(s) \in TrueWords \cup FalseWords

\* C7: validating a string against a boolean parameter coerces it by
\* meaning: "true", "1", "yes", "on" in any letter case give true, and
\* "false", "0", "no", "off" give false.
C7_BoolByMeaning ==
    (ValidateDone /\ param.type = "bool" /\ value.t = "str"
        /\ HasBoolMeaning(value.v)) =>
        vresult = Returned(PyBool(BoolMeaning(value.v)))

ValidateParametersDone == vmode = "validate_parameters" /\ validated # Pending

\* the mapping without its undeclared keys
DeclaredOnly(ps, kw) == [k \in (DOMAIN kw) \cap ParamNames(ps) |-> kw[k]]

\* C8: when validate_parameters returns, the keys of the returned mapping
\* are exactly the declared parameter names; an undeclared key of the input
\* is never an error and never reaches the result: the outcome is the one
\* of the same input without its undeclared keys.
C8_ExactlyDeclaredKeys ==
    ValidateParametersDone =>
        /\ validated.st = "returned" =>
              DOMAIN validated.value = ParamNames(vtool.params)
        /\ validated = validate_parameters(vtool.params,
                                           DeclaredOnly(vtool.params, kwargs))

\* C8 happens: validation passed on an input with an undeclared key and with
\* a declared parameter left to its default
C8_Witness ==
    /\ ValidateParametersDone
    /\ validated.st = "returned"
    /\ Unexpected(vtool.params, kwargs) # {}
    /\ ParamNames(vtool.params) \ DOMAIN kwargs # {}

(***************************************************************************)
(* ToolResult and ToolRegistry (tools/base.py)                             *)
(***************************************************************************)
\* ToolResult(success, data, error); data and error default to None.  An
\* error message is a str held as the fragments of its f-string.
ToolResult(success, data, error) ==
    [success |-> success, data |-> data, error |-> error]


\* ToolRegistry.get_tool(name): self._tools.get(name)
get_tool(name) == IF name \in DOMAIN _tools THEN _tools[name] ELSE PyNone

\* the names of a list
Elems(seq) == {seq[i] : i \in 1..Len(seq)}

\* list.remove(x): the list without the first occurrence of x
RemoveFirst(seq, x) ==
    LET i == CHOOSE j \in 1..Len(seq) :
                 seq[j] = x /\ \A k \in 1..(j - 1) : seq[k] # x
    IN SubSeq(seq, 1, i - 1) \o SubSeq(seq, i + 1, Len(seq))

\* ToolRegistry.list_tools(category): the bucket of a category, or, with no
\* (or an empty) category, the keys of _tools
list_tools(category) ==
    IF category.t = "str" /\ category.v # ""
    THEN IF category.v \in DOMAIN _categories
         THEN Elems(_categories[category.v]) ELSE {}
    ELSE DOMAIN _tools

\* register appending the name to the bucket without looking for it first
CategoriesAfterRegister_NoDupCheck(categories, tool) ==
    LET c1 == IF tool.category \notin DOMAIN categories
              THEN [c \in (DOMAIN categories) \cup {tool.category} |->
                       IF c = tool.category THEN <<>> ELSE categories[c]]
              ELSE categories
    IN [c1 EXCEPT ![tool.category] = Append(@, tool.name)]

\* _categories after register(tool): the bucket is made when missing, the
\* name is appended when the bucket does not hold it
CategoriesAfterRegister(categories, tool) ==
    LET c1 == IF tool.category \notin DOMAIN categories
              THEN [c \in (DOMAIN categories) \cup {tool.category} |->
                       IF c = tool.category THEN <<>> ELSE categories[c]]
              ELSE categories
    IN IF tool.name \notin Elems(c1[tool.category])
       THEN [c1 EXCEPT ![tool.category] = Append(@, tool.name)]
       ELSE c1

\* _tools after register(tool)
ToolsAfterRegister(tools, tool) ==
    [n \in (DOMAIN tools) \cup {tool.name} |->
        IF n = tool.name THEN tool ELSE tools[n]]

\* ToolRegistry.register(tool) on the registry reg
register(reg, tool) ==
    [tools      |-> ToolsAfterRegister(reg.tools, tool),
     categories |-> CategoriesAfterRegister(reg.categories, tool)]

\* _categories after unregister(name) of a registered name
CategoriesAfterUnregister(tools, categories, name) ==
    LET tool == tools[name] IN
    IF tool.category \in DOMAIN categories
    THEN LET b  == categories[tool.category]
             b1 == IF name \in Elems(b) THEN RemoveFirst(b, name) ELSE b
         IN IF Len(b1) = 0
            THEN [c \in (DOMAIN categories) \ {tool.category} |-> categories[c]]
            ELSE [categories EXCEPT ![tool.category] = b1]
    ELSE categories

\* ToolRegistry.unregister(name) on the registry reg: the registry after
\* the call and the value returned
unregister(reg, name) ==
    IF name \in DOMAIN reg.tools
    THEN [tools      |-> [n \in (DOMAIN reg.tools) \ {name} |-> reg.tools[n]],
          categories |-> CategoriesAfterUnregister(reg.tools, reg.categories, name),
          ret        |-> PyBool(TRUE)]
    ELSE [tools |-> reg.tools, categories |-> reg.categories,
          ret |-> PyBool(FALSE)]

\* ToolRegistry.get_help() with no name: the lines "  tool_name: description"
\* it lists, as pairs of category and tool name (the order of the lines is
\* not followed), or the KeyError of self._tools[tool_name]
get_help(reg) ==
    IF \E c \in DOMAIN reg.categories :
          \E n \in Elems(reg.categories[c]) : n \notin DOMAIN reg.tools
    THEN Raised("KeyError")
    ELSE Returned({ x \in (DOMAIN reg.categories) \X (DOMAIN reg.tools) :
                        x[2] \in Elems(reg.categories[x[1]]) })

\* ToolRegistry.__init__
EmptyRegistry == [tools |-> <<>>, categories |-> <<>>]

\* the registry after registering the tools of a list in order
RECURSIVE RegisterAll(_, _)
RegisterAll(reg, ts) ==
    IF Len(ts) = 0 THEN reg
    ELSE RegisterAll(register(reg, Head(ts)), Tail(ts))

\* tools/__init__.py: default_registry with the seven built-in tools
default_registry == RegisterAll(EmptyRegistry, DefaultTools)

\* what a tool's execute does with validated parameters: it returns a
\* successful or a failed ToolResult, raises an Exception, or raises a
\* BaseException that is no Exception (asyncio.CancelledError at an await,
\* KeyboardInterrupt, or one raised by the code python_exec runs)
ExecOutcomes == {"success", "failure", "Exception", "BaseException"}

\* ToolRegistry.execute_tool(name, **kwargs), called as the REPL calls it:
\* execute_tool(tool_name, **params).  Python binds the call first: a key
\* "name" or "self" in params collides with the positional arguments and
\* the call raises TypeError before the body runs.
execute_tool(name, kw, outcome) ==
    IF "name" \in DOMAIN kw \/ "self" \in DOMAIN kw
    THEN Raised("TypeError")
    ELSE LET tool == get_tool(name) IN
         IF tool = PyNone
         THEN Returned(ToolResult(FALSE, PyNone,
                                  FStr(<<Lit("Tool '"), Name(name), Lit("' not found")>>)))
         ELSE LET v == validate_parameters(tool.params, kw) IN
              IF v.st = "raised"
              THEN Returned(ToolResult(FALSE, PyNone,
                       FStr(<<Lit("Tool execution failed: ")>> \o v.msg)))
              ELSE CASE outcome = "success" ->
                          Returned(ToolResult(TRUE, PyStr(<<"o","k">>), PyNone))
                     [] outcome = "failure" ->
                          Returned(ToolResult(FALSE, PyNone,
                                              FStr(<<Lit("tool error")>>)))
                     [] outcome = "Exception" ->
                          Returned(ToolResult(FALSE, PyNone,
                              FStr(<<Lit("Tool execution failed: "), Name("Exception")>>)))
                     [] outcome = "BaseException" ->
                          Raised("BaseException")

(***************************************************************************)
(* SpecRegistry: any sequence of register, unregister and execute_tool     *)
(* calls on one ToolRegistry                                               *)
(***************************************************************************)
\* a tool a plugin provides under the name of a built-in tool, in its own
\* category, and the mock tool of TestToolRegistry
PluginShellTool ==
    Tool("shell_exec", "plugin", << ToolParameter("command", "str", TRUE, PyNone) >>)

MockTool == Tool("test_tool", "test", << >>)

\* the tools that get registered
RegTools ==
    {FileReadTool, ShellCommandTool, DirectoryTool, PluginShellTool, MockTool}

\* the names the registry is asked about
RegNames == {t.name : t \in RegTools} \cup {"nonexistent"}

\* the parameter mappings execute_tool is called with
RegKwargs ==
    { EmptyMap,
      [k \in {"command"} |-> PyStr(<<"l","s">>)],
      [k \in {"path"} |-> PyStr(<<"a",".","t","x","t">>)],
      [k \in {"name"} |-> PyStr(<<"a",".","t","x","t">>)],
      [k \in {"command", "input"} |-> PyStr(<<"l","s">>)] }

InitRegistry ==
    /\ _tools = EmptyRegistry.tools
    /\ _categories = EmptyRegistry.categories
    /\ last = [op |-> "none"]
    /\ prev = [op |-> "none"]
    /\ ExtIdle /\ FileIdle /\ ShellIdle /\ ValIdle /\ ToolIdle /\ IntentIdle

\* the short record of a call kept as the call before the last
Brief(c) ==
    CASE c.op = "register" -> [op |-> "register", tool |-> c.tool]
      [] c.op = "none"     -> c
      [] c.op = "get_help" -> [op |-> "get_help"]
      [] OTHER             -> [op |-> c.op, name |-> c.name]

\* the registry as a call found it
Before == [tools |-> _tools, categories |-> _categories]

\* registry.register(tool)
Register(tool) ==
    /\ _tools' = register(Before, tool).tools
    /\ _categories' = register(Before, tool).categories
    /\ last' = [op |-> "register", tool |-> tool, ret |-> Returned(PyNone),
                before |-> Before]
    /\ prev' = Brief(last)
    /\ UNCHANGED <<extVars, osVars, valVars, toolVars, intentVars>>

\* registry.unregister(name)
Unregister(name) ==
    /\ _tools' = unregister(Before, name).tools
    /\ _categories' = unregister(Before, name).categories
    /\ last' = [op |-> "unregister", name |-> name,
                ret |-> Returned(unregister(Before, name).ret), before |-> Before]
    /\ prev' = Brief(last)
    /\ UNCHANGED <<extVars, osVars, valVars, toolVars, intentVars>>

\* await registry.execute_tool(name, **kw)
ExecuteTool(name, kw, outcome) ==
    /\ last' = [op |-> "execute_tool", name |-> name, kwargs |-> kw,
                ret |-> execute_tool(name, kw, outcome)]
    /\ prev' = Brief(last)
    /\ UNCHANGED <<_tools, _categories>>
    /\ UNCHANGED <<extVars, osVars, valVars, toolVars, intentVars>>

\* registry.get_help()
GetHelp ==
    /\ last' = [op |-> "get_help", ret |-> get_help(Before)]
    /\ prev' = Brief(last)
    /\ UNCHANGED <<_tools, _categories>>
    /\ UNCHANGED <<extVars, osVars, valVars, toolVars, intentVars>>

NextRegistry ==
    \/ GetHelp
    \/ \E tool \in RegTools : Register(tool)
    \/ \E name \in RegNames : Unregister(name)
    \/ \E name \in RegNames, kw \in RegKwargs, outcome \in ExecOutcomes :
          ExecuteTool(name, kw, outcome)

SpecRegistry == InitRegistry /\ [][NextRegistry]_vars

(***************************************************************************)
(* Claims about the registry                                               *)
(***************************************************************************)
\* C1: execute_tool always returns a ToolResult and never raises: an
\* unknown name gives success=false with an error mentioning "not found",
\* and a validation failure or an exception inside execute gives
\* success=false with an error message.
C1_ExecuteToolNeverRaises ==
    last.op = "execute_tool" =>
        /\ last.ret.st = "returned"
        /\ last.ret.value.success \in BOOLEAN
        /\ last.name \notin DOMAIN _tools =>
              /\ ~last.ret.value.success
              /\ MentionsText(last.ret.value.error.v, "' not found")
        /\ ~last.ret.value.success => last.ret.value.error # PyNone

\* C3: every name in every category bucket is a registered name whose tool
\* has that bucket's category.
C3_BucketsConsistent ==
    \A c \in DOMAIN _categories :
        \A n \in Elems(_categories[c]) :
            n \in DOMAIN _tools /\ _tools[n].category = c

\* C4: register never raises and makes get_tool(name) the tool registered
\* last, also when the name was registered before; registering the same
\* tool twice in a row leaves _tools and _categories as the first
\* registration left them.
C4_RegisterIdempotent ==
    last.op = "register" =>
        /\ last.ret = Returned(PyNone)
        /\ get_tool(last.tool.name) = last.tool
        /\ prev = [op |-> "register", tool |-> last.tool] =>
              /\ _tools = last.before.tools
              /\ _categories = last.before.categories

\* C4 happens: the same tool was registered twice in a row
C4_Witness ==
    last.op = "register" /\ prev = [op |-> "register", tool |-> last.tool]

\* the categories list_tools may be asked for: every tool's, and none
AllCategories == {PyNone} \cup {PyStr(t.category) : t \in RegTools}

\* C5: unregister(name) returns true exactly when name was registered;
\* afterwards get_tool(name) is absent and no list_tools result holds name;
\* unregister of an unregistered name returns false and leaves _tools and
\* _categories unchanged.
C5_Unregister ==
    last.op = "unregister" =>
        /\ last.ret = Returned(PyBool(last.name \in DOMAIN last.before.tools))
        /\ get_tool(last.name) = PyNone
        /\ \A c \in AllCategories : last.name \notin list_tools(c)
        /\ last.name \notin DOMAIN last.before.tools =>
              /\ _tools = last.before.tools
              /\ _categories = last.before.categories

(***************************************************************************)
(* The built-in tools' execute: the ToolResult each branch builds.  The    *)
(* file system, the subprocess and the executed code are the environment e *)
(* of a call; p is the validated parameter mapping.                        *)
(***************************************************************************)
PyBytes(b) == [t |-> "bytes", v |-> b]

Ok(data)    == Returned(ToolResult(TRUE, data, PyNone))
Fail(msg)   == Returned(ToolResult(FALSE, PyNone, FStr(msg)))

\* FileReadTool.execute
FileReadExecute(p, e) ==
    CASE e.resolve = "raises" -> Fail(<<Lit("Failed to read file: "), Name("OSError")>>)
      [] ~e.exists            -> Fail(<<Lit("File not found: "), Val(p.path)>>)
      [] ~e.is_file           -> Fail(<<Lit("Path is not a file: "), Val(p.path)>>)
      [] e.size > p.max_size.v ->
            Fail(<<Lit("File too large: "), Val(PyInt(e.size)),
                   Lit(" bytes (max: "), Val(p.max_size), Lit(")")>>)
      [] e.io = "UnicodeDecodeError" ->
            Fail(<<Lit("Failed to decode file with encoding "), Val(p.encoding),
                   Lit(": "), Name("UnicodeDecodeError")>>)
      [] e.io = "OSError"     -> Fail(<<Lit("Failed to read file: "), Name("OSError")>>)
      [] OTHER                -> Ok(PyStr(e.content))

\* FileWriteTool.execute
FileWriteExecute(p, e) ==
    CASE e.resolve = "raises"              -> Fail(<<Lit("Failed to write file: "), Name("OSError")>>)
      [] p.create_dirs.v /\ e.mkdir = "OSError" ->
            Fail(<<Lit("Failed to write file: "), Name("OSError")>>)
      [] p.backup.v /\ e.exists /\ e.copy = "OSError" ->
            Fail(<<Lit("Failed to write file: "), Name("OSError")>>)
      [] e.io = "OSError"                  -> Fail(<<Lit("Failed to write file: "), Name("OSError")>>)
      [] OTHER -> Ok(FStr(<<Lit("File written successfully: "), Val(p.path)>>))

\* FileListTool.execute
FileListExecute(p, e) ==
    CASE e.resolve = "raises" -> Fail(<<Lit("Failed to list directory: "), Name("OSError")>>)
      [] ~e.exists            -> Fail(<<Lit("Path not found: "), Val(p.path)>>)
      [] ~e.is_dir            -> Fail(<<Lit("Path is not a directory: "), Val(p.path)>>)
      [] e.io = "OSError"     -> Fail(<<Lit("Failed to list directory: "), Name("OSError")>>)
      [] OTHER                -> Ok([t |-> "list", v |-> e.entries])

\* what process.communicate() hands back for a stream: None when the stream
\* is not piped, else the bytes written to it
Captured(p, bytes) == IF p.capture_output.v THEN PyBytes(bytes) ELSE PyNone

\* `x.decode('utf-8') if x else ''`
DecodeOrEmpty(x) == IF x # PyNone /\ Len(x.v) > 0 THEN PyStr(x.v) ELSE PyStr(<<>>)

\* bytes.decode('utf-8') raises UnicodeDecodeError on a byte that no UTF-8
\* text contains; 0xff is such a byte
ValidUtf8(bytes) == \A i \in 1..Len(bytes) : bytes[i] # "\\xff"

\* `x.decode('utf-8') if x else ''` raises
DecodeRaises(x) == x # PyNone /\ Len(x.v) > 0 /\ ~ValidUtf8(x.v)

\* ShellCommandTool.execute
ShellExecute(p, e) ==
    LET stdout == Captured(p, e.out)
        stderr == Captured(p, e.err)
    IN
    CASE p.cwd # PyNone /\ Truthy(p.cwd) /\ ~e.cwd_is_dir ->
            Fail(<<Lit("Working directory not found: "), Val(p.cwd)>>)
      [] e.spawn = "OSError" -> Fail(<<Lit("Failed to execute command: "), Name("OSError")>>)
      [] e.timed_out ->
            Fail(<<Lit("Command timed out after "), Val(p.timeout), Lit(" seconds")>>)
      [] DecodeRaises(stdout) \/ DecodeRaises(stderr) ->
            Fail(<<Lit("Failed to execute command: "), Name("UnicodeDecodeError")>>)
      [] OTHER ->
            Returned(ToolResult(
                e.returncode = 0,
                [stdout |-> DecodeOrEmpty(stdout), stderr |-> DecodeOrEmpty(stderr),
                 returncode |-> e.returncode],
                IF e.returncode # 0 THEN stderr ELSE PyNone))

\* DirectoryTool.execute
DirectoryExecute(p, e) ==
    LET op == p.operation.v IN
    CASE op = <<"c","u","r","r","e","n","t">> -> Ok(PyStr(e.getcwd))
      [] p.path = PyNone \/ ~Truthy(p.path) ->
            Fail(<<Lit("Path is required for this operation")>>)
      [] e.resolve = "raises" -> Fail(<<Lit("Directory operation failed: "), Name("OSError")>>)
      [] op = <<"c","r","e","a","t","e">> ->
            CASE e.io = "PermissionError" -> Fail(<<Lit("Permission denied: "), Name("PermissionError")>>)
              [] e.io = "OSError"         -> Fail(<<Lit("Directory operation failed: "), Name("OSError")>>)
              [] OTHER -> Ok(FStr(<<Lit("Directory created: "), Val(p.path)>>))
      [] op = <<"r","e","m","o","v","e">> ->
            CASE ~e.exists                -> Fail(<<Lit("Directory not found: "), Val(p.path)>>)
              [] ~e.is_dir                -> Fail(<<Lit("Path is not a directory: "), Val(p.path)>>)
              [] e.io = "PermissionError" -> Fail(<<Lit("Permission denied: "), Name("PermissionError")>>)
              [] e.io = "OSError"         -> Fail(<<Lit("Directory operation failed: "), Name("OSError")>>)
              [] OTHER -> Ok(FStr(<<Lit("Directory removed: "), Val(p.path)>>))
      [] op = <<"c","h","a","n","g","e">> ->
            CASE ~e.exists                -> Fail(<<Lit("Directory not found: "), Val(p.path)>>)
              [] ~e.is_dir                -> Fail(<<Lit("Path is not a directory: "), Val(p.path)>>)
              [] e.io = "PermissionError" -> Fail(<<Lit("Permission denied: "), Name("PermissionError")>>)
              [] e.io = "OSError"         -> Fail(<<Lit("Directory operation failed: "), Name("OSError")>>)
              [] OTHER -> Ok(FStr(<<Lit("Changed directory to: "), Val(p.path)>>))
      [] OTHER ->
            Fail(<<Lit("Unknown operation: "), Val(p.operation),
                   Lit(". Use 'create', 'remove', 'change', or 'current'")>>)

\* CodeAnalysisTool.execute
CodeAnalyzeExecute(p, e) ==
    CASE p.code = PyNone /\ p.file_path = PyNone ->
            Fail(<<Lit("Either 'code' or 'file_path' must be provided")>>)
      [] p.file_path # PyNone /\ Truthy(p.file_path) /\ ~e.exists ->
            Fail(<<Lit("File not found: "), Val(p.file_path)>>)
      [] p.file_path # PyNone /\ Truthy(p.file_path) /\ e.io = "OSError" ->
            Fail(<<Lit("Code analysis failed: "), Name("OSError")>>)
      [] (p.file_path = PyNone \/ ~Truthy(p.file_path)) /\ p.code = PyNone ->
            \* source_code is None: None.splitlines() raises AttributeError
            Fail(<<Lit("Code analysis failed: "), Name("AttributeError")>>)
      [] e.parse = "Exception" -> Fail(<<Lit("Failed to parse code: "), Name("Exception")>>)
      [] OTHER -> Ok([syntax_valid |-> e.parse = "ok"])

\* s occurs in t: `s in t`
Contains(t, s) ==
    \E x \in {t} : \E y \in {s} :
        \E pos \in 1..(Len(x) - Len(y) + 1) : SubSeq(x, pos, pos + Len(y) - 1) = y

\* any(w in t for w in ws)
ContainsAny(t, ws) == \E x \in {t} : \E i \in 1..Len(ws) : Contains(x, ws[i])

(***************************************************************************)
(* python_exec: the code texts run here, and what each does when it is     *)
(* executed by exec(compiled, exec_globals, exec_locals) under the         *)
(* restricted builtins                                                     *)
(***************************************************************************)
\* `x=1`: binds a local
c_assign ==
    <<"x","=","1">>

\* `1/0`: raises ZeroDivisionError
c_div ==
    <<"1","/","0">>

\* `print(1);open('f')`: writes a line to sys.stdout, then raises NameError
\* (open is not among the builtins handed to the code)
c_open ==
    <<"p","r","i","n","t","(","1",")",";","o","p","e","n","(","'","f",
      "'",")">>

\* an expression that walks from a tuple to object's subclasses, takes the
\* module of warnings.catch_warnings, fetches the import function out of its
\* builtins under a name put together from two string literals, imports os
\* and calls os.chdir('/')
c_escape ==
    <<"[","c"," ","f","o","r"," ","c"," ","i","n"," ","(",")",".","_",
      "_","c","l","a","s","s","_","_",".","_","_","b","a","s","e","_",
      "_",".","_","_","s","u","b","c","l","a","s","s","e","s","_","_",
      "(",")"," ","i","f"," ","c",".","_","_","n","a","m","e","_","_",
      "=","=","'","c","a","t","c","h","_","w","a","r","n","i","n","g",
      "s","'","]","[","0","]","(",")",".","_","m","o","d","u","l","e",
      ".","_","_","b","u","i","l","t","i","n","s","_","_","[","'","_",
      "_","i","m","p","'","+","'","o","r","t","_","_","'","]","(","'",
      "o","s","'",")",".","c","h","d","i","r","(","'","/","'",")">>

\* the same expression with the import function's name written in one piece
c_chdir ==
    <<"[","c"," ","f","o","r"," ","c"," ","i","n"," ","(",")",".","_",
      "_","c","l","a","s","s","_","_",".","_","_","b","a","s","e","_",
      "_",".","_","_","s","u","b","c","l","a","s","s","e","s","_","_",
      "(",")"," ","i","f"," ","c",".","_","_","n","a","m","e","_","_",
      "=","=","'","c","a","t","c","h","_","w","a","r","n","i","n","g",
      "s","'","]","[","0","]","(",")",".","_","m","o","d","u","l","e",
      ".","_","_","b","u","i","l","t","i","n","s","_","_","[","'","_",
      "_","i","m","p","o","r","t","_","_","'","]","(","'","o","s","'",
      ")",".","c","h","d","i","r","(","'","/","'",")">>

\* `while 1:0`: never ends
c_loop ==
    <<"w","h","i","l","e"," ","1",":","0">>

s_root == <<"/">>

\* what executing the code does: how it ends ("ok", "Exception", or
\* "forever" for code that does not end), what it writes to sys.stdout, and
\* the directory it makes the process working directory (<<>>: none)
Semantics(code) ==
    CASE code = c_assign -> [run |-> "ok",        out |-> <<>>,    chdir |-> <<>>]
      [] code = c_div    -> [run |-> "Exception", out |-> <<>>,    chdir |-> <<>>]
      [] code = c_open   -> [run |-> "Exception", out |-> <<"1">>, chdir |-> <<>>]
      [] code = c_escape -> [run |-> "ok",        out |-> <<>>,    chdir |-> s_root]
      [] code = c_chdir  -> [run |-> "ok",        out |-> <<>>,    chdir |-> s_root]
      [] code = c_loop   -> [run |-> "forever",   out |-> <<>>,    chdir |-> <<>>]
      [] OTHER           -> [run |-> "Exception", out |-> <<>>,    chdir |-> <<>>]

dangerous_keywords ==
    << <<"i","m","p","o","r","t"," ","o","s">>,
       <<"i","m","p","o","r","t"," ","s","y","s">>,
       <<"i","m","p","o","r","t"," ","s","u","b","p","r","o","c","e","s","s">>,
       <<"i","m","p","o","r","t"," ","s","h","u","t","i","l">>,
       <<"i","m","p","o","r","t"," ","s","o","c","k","e","t">>,
       <<"i","m","p","o","r","t"," ","u","r","l","l","i","b">>,
       <<"i","m","p","o","r","t"," ","r","e","q","u","e","s","t","s">>,
       <<"o","p","e","n","(">>,
       <<"f","i","l","e","(">>,
       <<"e","x","e","c","(">>,
       <<"e","v","a","l","(">>,
       <<"_","_","i","m","p","o","r","t","_","_">>,
       <<"c","o","m","p","i","l","e","(">>,
       <<"g","l","o","b","a","l","s","(",")">>,
       <<"l","o","c","a","l","s","(",")">>,
       <<"v","a","r","s","(",")">>,
       <<"d","e","l","a","t","t","r">>,
       <<"s","e","t","a","t","t","r">>,
       <<"g","e","t","a","t","t","r">>,
       <<"h","a","s","a","t","t","r">> >>

\* a scan that finds nothing
_has_dangerous_operations_Never(code) == FALSE

\* PythonExecuteTool._has_dangerous_operations
_has_dangerous_operations(code) == ContainsAny(Lower(code), dangerous_keywords)

\* PythonExecuteTool.execute, for code that ends; e.interrupt: a
\* KeyboardInterrupt reaches the process while exec runs
PythonExecute(p, e) ==
    CASE _has_dangerous_operations(p.code.v) ->
            Fail(<<Lit("Code contains potentially dangerous operations")>>)
      [] e.interrupt -> Raised("BaseException")
      [] Semantics(p.code.v).run = "ok" -> Ok([locals |-> "locals"])
      [] OTHER ->
            Returned(ToolResult(FALSE, [traceback |-> "traceback"],
                                FStr(<<Name("Exception"), Lit(": "), Val(PyStr(<<"m","s","g">>))>>)))

\* tool.execute(**p) of the built-in tool named n
BuiltinExecute(n, p, e) ==
    CASE n = "file_read"    -> FileReadExecute(p, e)
      [] n = "file_write"   -> FileWriteExecute(p, e)
      [] n = "file_list"    -> FileListExecute(p, e)
      [] n = "shell_exec"   -> ShellExecute(p, e)
      [] n = "directory"    -> DirectoryExecute(p, e)
      [] n = "code_analyze" -> CodeAnalyzeExecute(p, e)
      [] n = "python_exec"  -> PythonExecute(p, e)

(***************************************************************************)
(* SpecTools: one call of a built-in tool's execute, on validated          *)
(* parameters, in every environment of the sets below                      *)
(***************************************************************************)
s_path  == <<"a",".","t","x","t">>
s_text  == <<"h","i">>
s_cmd   == <<"l","s">>
s_dir   == <<"s","r","c">>

\* the largest exit code of a subprocess here
MaxReturnCode == 2

Kw0 == EmptyMap
Kw1(k, v) == [x \in {k} |-> v]
Kw2(k1, v1, k2, v2) == [x \in {k1, k2} |-> IF x = k1 THEN v1 ELSE v2]

\* the raw parameter mappings of the calls, per tool; each passes validation
CallKwargs(n) ==
    CASE n = "file_read" ->
            { Kw1("path", PyStr(s_path)),
              Kw2("path", PyStr(s_path), "max_size", PyInt(10)) }
      [] n = "file_write" ->
            { Kw2("path", PyStr(s_path), "content", PyStr(s_text)),
              Kw2("path", PyStr(s_path), "content", PyStr(s_text))
                  @@ Kw1("backup", PyBool(TRUE)),
              Kw2("path", PyStr(s_path), "content", PyStr(s_text))
                  @@ Kw1("create_dirs", PyBool(FALSE)) }
      [] n = "file_list" -> { Kw0, Kw1("path", PyStr(s_dir)) }
      [] n = "shell_exec" ->
            { Kw1("command", PyStr(s_cmd)),
              Kw2("command", PyStr(s_cmd), "capture_output", PyBool(FALSE)),
              Kw2("command", PyStr(s_cmd), "cwd", PyStr(s_dir)) }
      [] n = "directory" ->
            { Kw1("operation", PyStr(o)) :
                  o \in { <<"c","u","r","r","e","n","t">>, <<"c","r","e","a","t","e">>,
                          <<"r","e","m","o","v","e">>, <<"c","h","a","n","g","e">>,
                          <<"m","o","v","e">> } }
            \cup
            { Kw2("operation", PyStr(o), "path", PyStr(s_dir)) :
                  o \in { <<"c","u","r","r","e","n","t">>, <<"c","r","e","a","t","e">>,
                          <<"r","e","m","o","v","e">>, <<"c","h","a","n","g","e">>,
                          <<"m","o","v","e">> } }
      [] n = "code_analyze" ->
            { Kw0, Kw1("code", PyStr(s_text)), Kw1("file_path", PyStr(s_path)),
              Kw1("file_path", PyStr(<<>>)) }
      [] n = "python_exec" ->
            { Kw1("code", PyStr(c)) : c \in {c_assign, c_div, c_open, c_escape} }
            \cup
            { Kw2("code", PyStr(c_assign), "capture_output", PyBool(FALSE)) }

Outcome2 == {"ok", "OSError"}

\* the environments of the calls, per tool
CallEnvs(n) ==
    CASE n = "file_read" ->
            [resolve : {"ok", "raises"}, exists : BOOLEAN, is_file : BOOLEAN,
             size : {5, 20}, io : {"ok", "UnicodeDecodeError", "OSError"},
             content : {s_text}]
      [] n = "file_write" ->
            [resolve : {"ok", "raises"}, mkdir : Outcome2, exists : BOOLEAN,
             copy : Outcome2, io : Outcome2]
      [] n = "file_list" ->
            [resolve : {"ok", "raises"}, exists : BOOLEAN, is_dir : BOOLEAN,
             io : Outcome2, entries : {<<s_path>>}]
      [] n = "shell_exec" ->
            [cwd_is_dir : BOOLEAN, spawn : Outcome2, timed_out : BOOLEAN,
             returncode : 0..MaxReturnCode, out : {<<>>, <<"o">>, <<"\\xff">>},
             err : {<<>>, <<"e">>}]
      [] n = "directory" ->
            [resolve : {"ok", "raises"}, exists : BOOLEAN, is_dir : BOOLEAN,
             io : {"ok", "PermissionError", "OSError"}, getcwd : {s_dir}]
      [] n = "code_analyze" ->
            [exists : BOOLEAN, io : Outcome2, parse : {"ok", "SyntaxError", "Exception"}]
      [] n = "python_exec" ->
            [interrupt : BOOLEAN]

\* the declared parameters of the built-in tool named n
DefaultTool(n) ==
    CHOOSE t \in {DefaultTools[i] : i \in 1..Len(DefaultTools)} : t.name = n

DefaultNames == {DefaultTools[i].name : i \in 1..Len(DefaultTools)}

\* the calls: a built-in tool, its validated parameters, an environment
ToolCalls ==
    UNION { { [tool |-> n,
               p |-> validate_parameters(DefaultTool(n).params, kw).value,
               e |-> e] : kw \in CallKwargs(n), e \in CallEnvs(n) } :
            n \in DefaultNames }

InitTools ==
    /\ call \in ToolCalls
    /\ result = Pending
    /\ ExtIdle /\ FileIdle /\ ShellIdle /\ ValIdle /\ RegIdle /\ IntentIdle

\* await tool.execute(**validated_params)
ExecuteBuiltin ==
    /\ result = Pending
    /\ result' = BuiltinExecute(call.tool, call.p, call.e)
    /\ UNCHANGED call
    /\ UNCHANGED <<extVars, osVars, valVars, regVars, intentVars>>

NextTools == ExecuteBuiltin

SpecTools == InitTools /\ [][NextTools]_vars

\* C2: every ToolResult a built-in tool returns has no error when success
\* is true and has an error when success is false; so has the result of
\* shell_exec for a non-zero exit code, with or without captured output and
\* with or without text on stderr.
C2_ErrorIffFailure ==
    result.st = "returned" =>
        /\ result.value.success => result.value.error = PyNone
        /\ ~result.value.success => result.value.error # PyNone

(***************************************************************************)
(* Regular expressions, as far as the intent rules use them.  A pattern is *)
(* a list of alternatives (the parts between |), an alternative is a list  *)
(* of items, and re.search tries every start position.                     *)
(***************************************************************************)
\* a literal string
L(s) == [k |-> "lit", s |-> s]

\* .* : any run of characters other than newline
DotStar == [k |-> "any", s |-> <<>>]

\* [\w]+ : one or more word characters
Word == [k |-> "word", s |-> <<>>]

\* (?!\s*\.) : not followed by optional white space and a dot
NoDotAhead == [k |-> "nodot", s |-> <<>>]

\* [^\.]+ : one or more characters other than the dot
NotDot == [k |-> "notdot", s |-> <<>>]

\* $ : the end of the text, or just before a newline that ends it
End == [k |-> "end", s |-> <<>>]

\* \w
IsWordChar(c) ==
    \/ \E i \in 1..26 : Lowers[i] = c \/ Uppers[i] = c
    \/ IsDigit(c)
    \/ c = "_"

\* \s
IsSpace(c) == c \in {" ", "\t", "\n", "\r"}

\* the items from the i-th on match the text from position pos on
RECURSIVE MatchAt(_, _, _, _)
MatchAt(its, i, text, pos) ==
    IF i > Len(its) THEN TRUE
    ELSE LET it == its[i]
             n  == Len(text)
         IN CASE it.k = "lit" ->
                   /\ pos + Len(it.s) - 1 <= n
                   /\ SubSeq(text, pos, pos + Len(it.s) - 1) = it.s
                   /\ MatchAt(its, i + 1, text, pos + Len(it.s))
              [] it.k = "any" ->
                   \E q \in pos..(n + 1) :
                       /\ \A j \in pos..(q - 1) : text[j] # "\n"
                       /\ MatchAt(its, i + 1, text, q)
              [] it.k = "word" ->
                   \E q \in (pos + 1)..(n + 1) :
                       /\ \A j \in pos..(q - 1) : IsWordChar(text[j])
                       /\ MatchAt(its, i + 1, text, q)
              [] it.k = "notdot" ->
                   \E q \in (pos + 1)..(n + 1) :
                       /\ \A j \in pos..(q - 1) : text[j] # "."
                       /\ MatchAt(its, i + 1, text, q)
              [] it.k = "nodot" ->
                   /\ ~ \E q \in pos..n :
                          /\ \A j \in pos..(q - 1) : IsSpace(text[j])
                          /\ text[q] = "."
                   /\ MatchAt(its, i + 1, text, pos)
              [] it.k = "end" ->
                   /\ pos = n + 1 \/ (pos = n /\ text[n] = "\n")
                   /\ MatchAt(its, i + 1, text, pos)

\* re.search(pattern, text) finds a match
Search(pattern, text) ==
    \E a \in 1..Len(pattern) : \E pos \in 1..(Len(text) + 1) :
        MatchAt(pattern[a], 1, text, pos)

(***************************************************************************)
(* re.search with a match object, for the parameter extractors: the first  *)
(* start position that matches wins, a quantifier tries its longest run    *)
(* first (its shortest when lazy) and gives back character by character,   *)
(* the alternatives of a group are tried in order.                         *)
(***************************************************************************)
\* membership of a character in a character class of the extractors
InClass(c, cls) ==
    LET alpha == \E i \in 1..26 : Lowers[i] = c \/ Uppers[i] = c
        upper == \E i \in 1..26 : Uppers[i] = c
        alnum == alpha \/ IsDigit(c)
    IN CASE cls = "[~/]"             -> c \in {"~", "/"}
         [] cls = "[A-Za-z0-9_./\\\\-]" ->
                alnum \/ c \in {"_", ".", "/", "\\", "-"}
         [] cls = "[A-Za-z0-9_.-]"   -> alnum \/ c \in {"_", ".", "-"}
         [] cls = "[A-Za-z0-9_-]"    -> alnum \/ c \in {"_", "-"}
         [] cls = "[A-Za-z0-9]"      -> alnum
         [] cls = "[A-Za-z_]"        -> alpha \/ c = "_"
         [] cls = "[A-Za-z]"         -> alpha
         [] cls = "[A-Z_]"           -> upper \/ c = "_"
         [] cls = "[A-Z0-9_]"        -> upper \/ IsDigit(c) \/ c = "_"
         [] cls = "[Rr]"             -> c \in {"R", "r"}
         [] cls = "[\\w/]"           -> IsWordChar(c) \/ c = "/"
         [] cls = "\\s"              -> IsSpace(c)
         [] cls = "[\\s:]"           -> IsSpace(c) \/ c = ":"
         [] cls = "[\"']"            -> c \in {"\"", "'"}
         [] cls = "[^\"']"           -> c \notin {"\"", "'"}
         [] cls = "[^\\n]"           -> c # "\n"
         [] cls = "."                -> c # "\n"

\* items of a pattern: a class with its quantifier {min,max} (max 99 for
\* no limit), a group of alternative literals, an optional group, a
\* negative lookahead (?!...), and the two ends of capture group n
Cls(cls, min, max, greedy) ==
    [k |-> "cls", cls |-> cls, min |-> min, max |-> max, greedy |-> greedy]
Alt(strs) == [k |-> "alt", strs |-> strs]
Opt(items) == [k |-> "opt", items |-> items]
NotAhead(items) == [k |-> "not", items |-> items]
GOpen(n)  == [k |-> "open", n |-> n]
GClose(n) == [k |-> "close", n |-> n]

\* no match; and a match with the spans of its groups (0, 0: not set)
NoMatch == [ok |-> FALSE, start |-> 0, end |-> 0, caps |-> <<>>]
NoCaps  == [n \in 1..2 |-> [s |-> 0, e |-> 0]]

\* the length of the longest run of class characters from pos, at most max
RECURSIVE RunLen(_, _, _, _)
RunLen(text, pos, cls, max) ==
    IF max = 0 \/ pos > Len(text) \/ ~InClass(text[pos], cls) THEN 0
    ELSE 1 + RunLen(text, pos + 1, cls, max - 1)

\* the literal s is at pos of the text (in any letter case with IGNORECASE)
LitAt(text, pos, s, ic) ==
    /\ pos + Len(s) - 1 <= Len(text)
    /\ LET sub == SubSeq(text, pos, pos + Len(s) - 1)
       IN IF ic THEN Lower(sub) = Lower(s) ELSE sub = s

\* the items match the text from pos on: the match Python's backtracking
\* finds first.  TryLens tries the run lengths of a quantifier from q on in
\* steps of d until it passes stop; TryAlts tries alternatives from the
\* a-th on.
RECURSIVE MatchFrom(_, _, _, _, _)
RECURSIVE TryLens(_, _, _, _, _, _, _, _)
RECURSIVE TryAlts(_, _, _, _, _, _, _)
MatchFrom(items, text, pos, caps, ic) ==
    IF Len(items) = 0
    THEN [ok |-> TRUE, start |-> 0, end |-> pos, caps |-> caps]
    ELSE LET it   == Head(items)
             rest == Tail(items)
         IN CASE it.k = "lit" ->
                   IF LitAt(text, pos, it.s, ic)
                   THEN MatchFrom(rest, text, pos + Len(it.s), caps, ic)
                   ELSE NoMatch
              [] it.k = "cls" ->
                   LET mx == RunLen(text, pos, it.cls, it.max) IN
                   IF mx < it.min THEN NoMatch
                   ELSE IF it.greedy
                        THEN TryLens(rest, text, pos, caps, ic, mx, it.min, -1)
                        ELSE TryLens(rest, text, pos, caps, ic, it.min, mx, 1)
              [] it.k = "alt" ->
                   TryAlts(it.strs, 1, rest, text, pos, caps, ic)
              [] it.k = "opt" ->
                   CHOOSE m \in { IF r.ok THEN r ELSE MatchFrom(rest, text, pos, caps, ic) :
                                    r \in {MatchFrom(it.items \o rest, text, pos, caps, ic)} } :
                       TRUE
              [] it.k = "not" ->
                   IF MatchFrom(it.items, text, pos, caps, ic).ok
                   THEN NoMatch
                   ELSE MatchFrom(rest, text, pos, caps, ic)
              [] it.k = "open" ->
                   MatchFrom(rest, text, pos,
                             [caps EXCEPT ![it.n] = [s |-> pos, e |-> 0]], ic)
              [] it.k = "close" ->
                   MatchFrom(rest, text, pos,
                             [caps EXCEPT ![it.n] = [s |-> @.s, e |-> pos]], ic)

TryLens(rest, text, pos, caps, ic, q, stop, d) ==
    IF (d < 0 /\ q < stop) \/ (d > 0 /\ q > stop) THEN NoMatch
    ELSE CHOOSE m \in { IF r.ok THEN r
                        ELSE TryLens(rest, text, pos, caps, ic, q + d, stop, d) :
                        r \in {MatchFrom(rest, text, pos + q, caps, ic)} } : TRUE

TryAlts(strs, a, rest, text, pos, caps, ic) ==
    IF a > Len(strs) THEN NoMatch
    ELSE CHOOSE m \in { IF r.ok THEN r
                        ELSE TryAlts(strs, a + 1, rest, text, pos, caps, ic) :
                        r \in { IF LitAt(text, pos, strs[a], ic)
                                THEN MatchFrom(rest, text, pos + Len(strs[a]), caps, ic)
                                ELSE NoMatch } } : TRUE

\* re.search(pattern, text, re.IGNORECASE if ic else 0): the match object
re_search(items, text, ic) ==
    CHOOSE r \in {
        IF ms = {} THEN NoMatch
        ELSE CHOOSE m \in ms : \A y \in ms : m.start <= y.start :
        ms \in { { m \in { [MatchFrom(items, text, pos, NoCaps, ic) EXCEPT !.start = pos] :
                              pos \in 1..(Len(text) + 1) } : m.ok } } } : TRUE

\* match.group(n) for a group that took part, match.group() for n = 0
group(text, m, n) ==
    CHOOSE r \in {
        IF n = 0 THEN SubSeq(text, x.start, x.end - 1)
        ELSE SubSeq(text, x.caps[n].s, x.caps[n].e - 1) : x \in {m} } : TRUE

(***************************************************************************)
(* The parameter extractors of the REPL                                    *)
(***************************************************************************)
\* d[k] = v on a dict
Put(d, k, v) ==
    CHOOSE r \in { [x \in (DOMAIN dd) \cup {k} |-> IF x = k THEN v ELSE dd[x]] :
                     dd \in {d} } : TRUE

\* d.update(e)
Update(d, e) ==
    CHOOSE r \in { [x \in (DOMAIN dd) \cup (DOMAIN ee) |->
                        IF x \in DOMAIN ee THEN ee[x] ELSE dd[x]] :
                     dd \in {d}, ee \in {e} } : TRUE

\* os.path.join(a, b)
PathJoin(a, b) ==
    CHOOSE r \in {
        IF Len(y) > 0 /\ y[1] = "/" THEN y
        ELSE IF Len(x) = 0 \/ x[Len(x)] = "/" THEN x \o y
             ELSE x \o <<"/">> \o y : x \in {a}, y \in {b} } : TRUE

\* str.strip()
RECURSIVE Strip(_)
Strip(s) ==
    CHOOSE r \in {
        IF Len(x) > 0 /\ IsSpace(x[1]) THEN Strip(Tail(x))
        ELSE IF Len(x) > 0 /\ IsSpace(x[Len(x)]) THEN Strip(SubSeq(x, 1, Len(x) - 1))
             ELSE x : x \in {s} } : TRUE

\* for pattern in pats: m = re.search(pattern, text); if m: ...; break
\* the index h of the first pattern found and its match m; h = 0: none
FirstMatch(pats, text, ic) ==
    CHOOSE r \in {
        IF hits = {} THEN [h |-> 0, m |-> NoMatch]
        ELSE CHOOSE x \in hits : \A y \in hits : x.h <= y.h :
        hits \in { { x \in { [h |-> i, m |-> re_search(pats[i], text, ic)] :
                                i \in 1..Len(pats) } : x.m.ok } } } : TRUE

\* the first loop of the file extractors: a path with a folder in the text.
\* One group: the full path; two groups: joined, in the order the words
\* "di folder", "in folder" (and for file_write "to folder") decide.
PathWithFolder(text, pats, folder_words) ==
    CHOOSE r \in {
        IF hit.h = 0 THEN EmptyMap
        ELSE IF hit.h = 1
             THEN Put(EmptyMap, "path", PyStr(group(text, hit.m, 1)))
             ELSE IF ContainsAny(Lower(text), folder_words)
                  THEN Put(EmptyMap, "path",
                           PyStr(PathJoin(group(text, hit.m, 2), group(text, hit.m, 1))))
                  ELSE Put(EmptyMap, "path",
                           PyStr(PathJoin(group(text, hit.m, 1), group(text, hit.m, 2)))) :
        hit \in {FirstMatch(pats, text, TRUE)} } : TRUE

\* the second loop of the file extractors: a standalone file name
StandaloneFile(params, text, pats, ic) ==
    CHOOSE r \in {
        IF "path" \in DOMAIN p \/ hit.h = 0 THEN p
        ELSE Put(p, "path", PyStr(group(text, hit.m, 1))) :
        p \in {params}, hit \in {FirstMatch(pats, text, ic)} } : TRUE

\* the name after a verb, given an extension when it has none; keep holds
\* the names left as they are
NamedFile(filename, low, keep) ==
    LET py == <<".", "p", "y">>
        md == <<".", "m", "d">>
    IN IF Contains(filename, <<".">>) THEN filename
       ELSE IF ContainsAny(low, <<<<"c", "o", "d", "e">>, <<"s", "c", "r", "i", "p", "t">>, <<"p", "r", "o", "g", "r", "a", "m">>>>) THEN filename \o py
       ELSE IF ContainsAny(low, <<<<"d", "o", "c">>, <<"g", "u", "i", "d", "e">>, <<"r", "e", "a", "d", "m", "e">>>>) THEN filename \o md
       ELSE IF Contains(Lower(filename), <<"c", "o", "n", "f", "i", "g">>) THEN filename \o py
       ELSE IF Contains(Lower(filename), <<"r", "e", "a", "d", "m", "e">>) THEN filename \o md
       ELSE IF \E i \in 1..Len(keep) : keep[i] = Lower(filename) THEN filename
       ELSE filename \o py

\* the third loop of file_read and file_edit: a name after a verb
NameAfterVerb(params, text, pats, keep) ==
    CHOOSE r \in {
        IF "path" \in DOMAIN p \/ hit.h = 0 THEN p
        ELSE CHOOSE q \in { Put(p, "path", PyStr(NamedFile(filename, low, keep))) :
                              filename \in {group(text, hit.m, 1)},
                              low \in {Lower(text)} } : TRUE :
        p \in {params}, hit \in {FirstMatch(pats, text, FALSE)} } : TRUE

\* file_edit: the editor named in the text; "vscode" is "code"
WithEditor(params, text, pats) ==
    CHOOSE r \in {
        IF hit.h = 0 THEN p
        ELSE CHOOSE q \in {
                 IF editor \in {<<"v", "s", "c", "o", "d", "e">>, <<"c", "o", "d", "e">>}
                 THEN Put(p, "editor", PyStr(<<"c", "o", "d", "e">>))
                 ELSE Put(p, "editor", PyStr(editor)) :
                 editor \in {Lower(group(text, hit.m, 1))} } : TRUE :
        p \in {params}, hit \in {FirstMatch(pats, text, TRUE)} } : TRUE

\* file_write: the content given in the text, or the empty content for a
\* creation
WithContent(params, text, pats) ==
    CHOOSE r \in {
        IF hit.h # 0
        THEN Put(p, "content", PyStr(Strip(group(text, hit.m, 1))))
        ELSE IF ContainsAny(Lower(text), <<<<"b", "u", "a", "t">>, <<"c", "r", "e", "a", "t", "e">>>>)
             THEN Put(p, "content", PyStr(<<>>))
             ELSE p :
        p \in {params}, hit \in {FirstMatch(pats, text, TRUE)} } : TRUE

\* file_write: a backup asked for in the text
WithBackup(params, text) ==
    CHOOSE r \in {
        IF ContainsAny(Lower(text), <<<<"b", "a", "c", "k", "u", "p">>, <<"c", "a", "d", "a", "n", "g", "a", "n">>>>)
        THEN Put(p, "backup", PyBool(TRUE))
        ELSE p : p \in {params} } : TRUE

\* file_list: the pattern of the extension named in the text
ListPattern(text) ==
    IF Contains(text, <<".", "p", "y">>) THEN Put(EmptyMap, "pattern", PyStr(<<"*", ".", "p", "y">>))
    ELSE IF Contains(text, <<".", "j", "s">>) THEN Put(EmptyMap, "pattern", PyStr(<<"*", ".", "j", "s">>))
    ELSE IF Contains(text, <<".", "t", "x", "t">>) THEN Put(EmptyMap, "pattern", PyStr(<<"*", ".", "t", "x", "t">>))
    ELSE IF Contains(text, <<".", "m", "d">>) THEN Put(EmptyMap, "pattern", PyStr(<<"*", ".", "m", "d">>))
    ELSE EmptyMap

\* file_list: subfolder|recursive|semua.*folder in the lowercased text
WithRecursive(params, text) ==
    CHOOSE r \in {
        IF Search(<< <<L(<<"s", "u", "b", "f", "o", "l", "d", "e", "r">>)>>,
                     <<L(<<"r", "e", "c", "u", "r", "s", "i", "v", "e">>)>>,
                     <<L(<<"s", "e", "m", "u", "a">>), DotStar, L(<<"f", "o", "l", "d", "e", "r">>)>> >>,
                  Lower(text))
        THEN Put(p, "recursive", PyBool(TRUE))
        ELSE p : p \in {params} } : TRUE

\* file_list: the directory named in the text, unless the text speaks of
\* the current directory; patterns 3 on capture a folder name
WithListPath(params, text, pats, current_dir_patterns) ==
    CHOOSE r \in {
        IF ContainsAny(Lower(text), current_dir_patterns) \/ hit.h = 0 THEN p
        ELSE IF hit.h >= 3
             THEN IF Lower(group(text, hit.m, 1)) \notin
                       {<<"i", "n", "i">>, <<"t", "h", "i", "s">>, <<"h", "e", "r", "e">>, <<"c", "u", "r", "r", "e", "n", "t">>}
                  THEN Put(p, "path", PyStr(group(text, hit.m, 1)))
                  ELSE p
             ELSE Put(p, "path", PyStr(group(text, hit.m, 0))) :
        p \in {params}, hit \in {FirstMatch(pats, text, FALSE)} } : TRUE

\* an extractor that finds nothing in the text
extract_Nothing(text) == EmptyMap

\* REPL._extract_file_read_params
_extract_file_read_params(text) ==
    LET path_patterns == <<
            \* ([~/]?[A-Za-z0-9_./\\-]+/[A-Za-z0-9_.-]+\.[A-Za-z0-9]+)
            <<GOpen(1), Cls("[~/]", 0, 1, TRUE), Cls("[A-Za-z0-9_./\\\\-]", 1, 99, TRUE), L(<<"/">>), Cls("[A-Za-z0-9_.-]", 1, 99, TRUE), L(<<".">>), Cls("[A-Za-z0-9]", 1, 99, TRUE), GClose(1)>>,
            \* ([A-Za-z0-9_.-]+\.[A-Za-z0-9]+)\s+(?:di|in|from)\s+(?:folder\s+)?([~/]?[A-Za-z0-9_./\\-]+)
            <<GOpen(1), Cls("[A-Za-z0-9_.-]", 1, 99, TRUE), L(<<".">>), Cls("[A-Za-z0-9]", 1, 99, TRUE), GClose(1), Cls("\\s", 1, 99, TRUE), Alt(<<<<"d", "i">>, <<"i", "n">>, <<"f", "r", "o", "m">>>>), Cls("\\s", 1, 99, TRUE), Opt(<<L(<<"f", "o", "l", "d", "e", "r">>), Cls("\\s", 1, 99, TRUE)>>), GOpen(2), Cls("[~/]", 0, 1, TRUE), Cls("[A-Za-z0-9_./\\\\-]", 1, 99, TRUE), GClose(2)>>,
            \* (?:folder\s+)?([~/]?[A-Za-z0-9_./\\-]+)/([A-Za-z0-9_.-]+\.[A-Za-z0-9]+)
            <<Opt(<<L(<<"f", "o", "l", "d", "e", "r">>), Cls("\\s", 1, 99, TRUE)>>), GOpen(1), Cls("[~/]", 0, 1, TRUE), Cls("[A-Za-z0-9_./\\\\-]", 1, 99, TRUE), GClose(1), L(<<"/">>), GOpen(2), Cls("[A-Za-z0-9_.-]", 1, 99, TRUE), L(<<".">>), Cls("[A-Za-z0-9]", 1, 99, TRUE), GClose(2)>> >>
        file_patterns == <<
            \* ([A-Za-z_][A-Za-z0-9_.-]*\.[A-Za-z0-9]+)
            <<GOpen(1), Cls("[A-Za-z_]", 1, 1, TRUE), Cls("[A-Za-z0-9_.-]", 0, 99, TRUE), L(<<".">>), Cls("[A-Za-z0-9]", 1, 99, TRUE), GClose(1)>>,
            \* ([A-Z_][A-Z0-9_]*\.md)
            <<GOpen(1), Cls("[A-Z_]", 1, 1, TRUE), Cls("[A-Z0-9_]", 0, 99, TRUE), L(<<".", "m", "d">>), GClose(1)>>,
            \* ((?:config|readme)\.[A-Za-z]+)
            <<GOpen(1), Alt(<<<<"c", "o", "n", "f", "i", "g">>, <<"r", "e", "a", "d", "m", "e">>>>), L(<<".">>), Cls("[A-Za-z]", 1, 99, TRUE), GClose(1)>>,
            \* ([Rr]eadme\.[A-Za-z]+)
            <<GOpen(1), Cls("[Rr]", 1, 1, TRUE), L(<<"e", "a", "d", "m", "e", ".">>), Cls("[A-Za-z]", 1, 99, TRUE), GClose(1)>> >>
        content_patterns == <<
            \* isi dari ([A-Za-z0-9_.-]+)
            <<L(<<"i", "s", "i", " ", "d", "a", "r", "i", " ">>), GOpen(1), Cls("[A-Za-z0-9_.-]", 1, 99, TRUE), GClose(1)>>,
            \* content of ([A-Za-z0-9_.-]+)
            <<L(<<"c", "o", "n", "t", "e", "n", "t", " ", "o", "f", " ">>), GOpen(1), Cls("[A-Za-z0-9_.-]", 1, 99, TRUE), GClose(1)>>,
            \* melihat isi ([A-Za-z0-9_.-]+)
            <<L(<<"m", "e", "l", "i", "h", "a", "t", " ", "i", "s", "i", " ">>), GOpen(1), Cls("[A-Za-z0-9_.-]", 1, 99, TRUE), GClose(1)>>,
            \* melihat isi dari ([A-Za-z0-9_.-]+)
            <<L(<<"m", "e", "l", "i", "h", "a", "t", " ", "i", "s", "i", " ", "d", "a", "r", "i", " ">>), GOpen(1), Cls("[A-Za-z0-9_.-]", 1, 99, TRUE), GClose(1)>>,
            \* baca ([A-Za-z0-9_.-]+)
            <<L(<<"b", "a", "c", "a", " ">>), GOpen(1), Cls("[A-Za-z0-9_.-]", 1, 99, TRUE), GClose(1)>>,
            \* read ([A-Za-z0-9_.-]+)
            <<L(<<"r", "e", "a", "d", " ">>), GOpen(1), Cls("[A-Za-z0-9_.-]", 1, 99, TRUE), GClose(1)>>,
            \* show me ([A-Za-z0-9_.-]+)
            <<L(<<"s", "h", "o", "w", " ", "m", "e", " ">>), GOpen(1), Cls("[A-Za-z0-9_.-]", 1, 99, TRUE), GClose(1)>>,
            \* view ([A-Za-z0-9_.-]+)
            <<L(<<"v", "i", "e", "w", " ">>), GOpen(1), Cls("[A-Za-z0-9_.-]", 1, 99, TRUE), GClose(1)>>,
            \* see ([A-Za-z0-9_.-]+)
            <<L(<<"s", "e", "e", " ">>), GOpen(1), Cls("[A-Za-z0-9_.-]", 1, 99, TRUE), GClose(1)>> >>
    IN NameAfterVerb(
           StandaloneFile(PathWithFolder(text, path_patterns, <<<<"d", "i", " ", "f", "o", "l", "d", "e", "r">>, <<"i", "n", " ", "f", "o", "l", "d", "e", "r">>>>),
                          text, file_patterns, FALSE),
           text, content_patterns, <<<<"l", "i", "c", "e", "n", "s", "e">>, <<"c", "h", "a", "n", "g", "e", "l", "o", "g">>, <<"a", "u", "t", "h", "o", "r", "s">>>>)

\* REPL._extract_file_edit_params
_extract_file_edit_params(text) ==
    LET path_patterns == <<
            \* ([~/]?[A-Za-z0-9_./\\-]+/[A-Za-z0-9_.-]+\.[A-Za-z0-9]+)
            <<GOpen(1), Cls("[~/]", 0, 1, TRUE), Cls("[A-Za-z0-9_./\\\\-]", 1, 99, TRUE), L(<<"/">>), Cls("[A-Za-z0-9_.-]", 1, 99, TRUE), L(<<".">>), Cls("[A-Za-z0-9]", 1, 99, TRUE), GClose(1)>>,
            \* ([A-Za-z0-9_.-]+\.[A-Za-z0-9]+)\s+(?:di|in|from)\s+(?:folder\s+)?([~/]?[A-Za-z0-9_./\\-]+)
            <<GOpen(1), Cls("[A-Za-z0-9_.-]", 1, 99, TRUE), L(<<".">>), Cls("[A-Za-z0-9]", 1, 99, TRUE), GClose(1), Cls("\\s", 1, 99, TRUE), Alt(<<<<"d", "i">>, <<"i", "n">>, <<"f", "r", "o", "m">>>>), Cls("\\s", 1, 99, TRUE), Opt(<<L(<<"f", "o", "l", "d", "e", "r">>), Cls("\\s", 1, 99, TRUE)>>), GOpen(2), Cls("[~/]", 0, 1, TRUE), Cls("[A-Za-z0-9_./\\\\-]", 1, 99, TRUE), GClose(2)>>,
            \* (?:folder\s+)?([~/]?[A-Za-z0-9_./\\-]+)/([A-Za-z0-9_.-]+\.[A-Za-z0-9]+)
            <<Opt(<<L(<<"f", "o", "l", "d", "e", "r">>), Cls("\\s", 1, 99, TRUE)>>), GOpen(1), Cls("[~/]", 0, 1, TRUE), Cls("[A-Za-z0-9_./\\\\-]", 1, 99, TRUE), GClose(1), L(<<"/">>), GOpen(2), Cls("[A-Za-z0-9_.-]", 1, 99, TRUE), L(<<".">>), Cls("[A-Za-z0-9]", 1, 99, TRUE), GClose(2)>> >>
        file_patterns == <<
            \* ([A-Za-z_][A-Za-z0-9_.-]*\.[A-Za-z0-9]+)
            <<GOpen(1), Cls("[A-Za-z_]", 1, 1, TRUE), Cls("[A-Za-z0-9_.-]", 0, 99, TRUE), L(<<".">>), Cls("[A-Za-z0-9]", 1, 99, TRUE), GClose(1)>>,
            \* ([A-Z_][A-Z0-9_]*\.md)
            <<GOpen(1), Cls("[A-Z_]", 1, 1, TRUE), Cls("[A-Z0-9_]", 0, 99, TRUE), L(<<".", "m", "d">>), GClose(1)>>,
            \* ((?:config|readme)\.[A-Za-z]+)
            <<GOpen(1), Alt(<<<<"c", "o", "n", "f", "i", "g">>, <<"r", "e", "a", "d", "m", "e">>>>), L(<<".">>), Cls("[A-Za-z]", 1, 99, TRUE), GClose(1)>>,
            \* ([Rr]eadme\.[A-Za-z]+)
            <<GOpen(1), Cls("[Rr]", 1, 1, TRUE), L(<<"e", "a", "d", "m", "e", ".">>), Cls("[A-Za-z]", 1, 99, TRUE), GClose(1)>> >>
        content_patterns == <<
            \* edit ([A-Za-z0-9_.-]+)
            <<L(<<"e", "d", "i", "t", " ">>), GOpen(1), Cls("[A-Za-z0-9_.-]", 1, 99, TRUE), GClose(1)>>,
            \* ubah ([A-Za-z0-9_.-]+)
            <<L(<<"u", "b", "a", "h", " ">>), GOpen(1), Cls("[A-Za-z0-9_.-]", 1, 99, TRUE), GClose(1)>>,
            \* modify ([A-Za-z0-9_.-]+)
            <<L(<<"m", "o", "d", "i", "f", "y", " ">>), GOpen(1), Cls("[A-Za-z0-9_.-]", 1, 99, TRUE), GClose(1)>>,
            \* update ([A-Za-z0-9_.-]+)
            <<L(<<"u", "p", "d", "a", "t", "e", " ">>), GOpen(1), Cls("[A-Za-z0-9_.-]", 1, 99, TRUE), GClose(1)>>,
            \* ganti isi ([A-Za-z0-9_.-]+)
            <<L(<<"g", "a", "n", "t", "i", " ", "i", "s", "i", " ">>), GOpen(1), Cls("[A-Za-z0-9_.-]", 1, 99, TRUE), GClose(1)>>,
            \* change ([A-Za-z0-9_.-]+)
            <<L(<<"c", "h", "a", "n", "g", "e", " ">>), GOpen(1), Cls("[A-Za-z0-9_.-]", 1, 99, TRUE), GClose(1)>> >>
        editor_patterns == <<
            \* (?:with|using|in)\s+(nano|vim|vi|code|vscode)
            <<Alt(<<<<"w", "i", "t", "h">>, <<"u", "s", "i", "n", "g">>, <<"i", "n">>>>), Cls("\\s", 1, 99, TRUE), GOpen(1), Alt(<<<<"n", "a", "n", "o">>, <<"v", "i", "m">>, <<"v", "i">>, <<"c", "o", "d", "e">>, <<"v", "s", "c", "o", "d", "e">>>>), GClose(1)>>,
            \* (?:pakai|gunakan)\s+(nano|vim|vi|code|vscode)
            <<Alt(<<<<"p", "a", "k", "a", "i">>, <<"g", "u", "n", "a", "k", "a", "n">>>>), Cls("\\s", 1, 99, TRUE), GOpen(1), Alt(<<<<"n", "a", "n", "o">>, <<"v", "i", "m">>, <<"v", "i">>, <<"c", "o", "d", "e">>, <<"v", "s", "c", "o", "d", "e">>>>), GClose(1)>> >>
    IN WithEditor(
           NameAfterVerb(
               StandaloneFile(PathWithFolder(text, path_patterns, <<<<"d", "i", " ", "f", "o", "l", "d", "e", "r">>, <<"i", "n", " ", "f", "o", "l", "d", "e", "r">>>>),
                              text, file_patterns, FALSE),
               text, content_patterns, <<>>),
           text, editor_patterns)

\* REPL._extract_file_write_params
_extract_file_write_params(text) ==
    LET path_patterns == <<
            \* ([~/]?[A-Za-z0-9_./\\-]+/[A-Za-z0-9_.-]+\.[A-Za-z0-9]+)
            <<GOpen(1), Cls("[~/]", 0, 1, TRUE), Cls("[A-Za-z0-9_./\\\\-]", 1, 99, TRUE), L(<<"/">>), Cls("[A-Za-z0-9_.-]", 1, 99, TRUE), L(<<".">>), Cls("[A-Za-z0-9]", 1, 99, TRUE), GClose(1)>>,
            \* ([A-Za-z0-9_.-]+\.[A-Za-z0-9]+)\s+(?:di|in|to)\s+(?:folder\s+)?([~/]?[A-Za-z0-9_./\\-]+)
            <<GOpen(1), Cls("[A-Za-z0-9_.-]", 1, 99, TRUE), L(<<".">>), Cls("[A-Za-z0-9]", 1, 99, TRUE), GClose(1), Cls("\\s", 1, 99, TRUE), Alt(<<<<"d", "i">>, <<"i", "n">>, <<"t", "o">>>>), Cls("\\s", 1, 99, TRUE), Opt(<<L(<<"f", "o", "l", "d", "e", "r">>), Cls("\\s", 1, 99, TRUE)>>), GOpen(2), Cls("[~/]", 0, 1, TRUE), Cls("[A-Za-z0-9_./\\\\-]", 1, 99, TRUE), GClose(2)>>,
            \* (?:folder\s+)?([~/]?[A-Za-z0-9_./\\-]+)/([A-Za-z0-9_.-]+\.[A-Za-z0-9]+)
            <<Opt(<<L(<<"f", "o", "l", "d", "e", "r">>), Cls("\\s", 1, 99, TRUE)>>), GOpen(1), Cls("[~/]", 0, 1, TRUE), Cls("[A-Za-z0-9_./\\\\-]", 1, 99, TRUE), GClose(1), L(<<"/">>), GOpen(2), Cls("[A-Za-z0-9_.-]", 1, 99, TRUE), L(<<".">>), Cls("[A-Za-z0-9]", 1, 99, TRUE), GClose(2)>> >>
        file_patterns == <<
            \* (?:buat|create|write|tulis|simpan|save).*?([A-Za-z_][A-Za-z0-9_.-]*\.[A-Za-z0-9]+)
            <<Alt(<<<<"b", "u", "a", "t">>, <<"c", "r", "e", "a", "t", "e">>, <<"w", "r", "i", "t", "e">>, <<"t", "u", "l", "i", "s">>, <<"s", "i", "m", "p", "a", "n">>, <<"s", "a", "v", "e">>>>), Cls(".", 0, 99, FALSE), GOpen(1), Cls("[A-Za-z_]", 1, 1, TRUE), Cls("[A-Za-z0-9_.-]", 0, 99, TRUE), L(<<".">>), Cls("[A-Za-z0-9]", 1, 99, TRUE), GClose(1)>>,
            \* (?:file|berkas)\s+([A-Za-z_][A-Za-z0-9_.-]*\.[A-Za-z0-9]+)
            <<Alt(<<<<"f", "i", "l", "e">>, <<"b", "e", "r", "k", "a", "s">>>>), Cls("\\s", 1, 99, TRUE), GOpen(1), Cls("[A-Za-z_]", 1, 1, TRUE), Cls("[A-Za-z0-9_.-]", 0, 99, TRUE), L(<<".">>), Cls("[A-Za-z0-9]", 1, 99, TRUE), GClose(1)>>,
            \* ([A-Za-z_][A-Za-z0-9_.-]*\.[A-Za-z0-9]+)
            <<GOpen(1), Cls("[A-Za-z_]", 1, 1, TRUE), Cls("[A-Za-z0-9_.-]", 0, 99, TRUE), L(<<".">>), Cls("[A-Za-z0-9]", 1, 99, TRUE), GClose(1)>> >>
        content_patterns == <<
            \* (?:isi|content|dengan|with)[\s:]+["\']([^"\']+)["\']
            <<Alt(<<<<"i", "s", "i">>, <<"c", "o", "n", "t", "e", "n", "t">>, <<"d", "e", "n", "g", "a", "n">>, <<"w", "i", "t", "h">>>>), Cls("[\\s:]", 1, 99, TRUE), Cls("[\"']", 1, 1, TRUE), GOpen(1), Cls("[^\"']", 1, 99, TRUE), GClose(1), Cls("[\"']", 1, 1, TRUE)>>,
            \* (?:isi|content|dengan|with)[\s:]+([^\n]+)
            <<Alt(<<<<"i", "s", "i">>, <<"c", "o", "n", "t", "e", "n", "t">>, <<"d", "e", "n", "g", "a", "n">>, <<"w", "i", "t", "h">>>>), Cls("[\\s:]", 1, 99, TRUE), GOpen(1), Cls(".", 1, 99, TRUE), GClose(1)>>,
            \* tambahkan[\s:]+["\']([^"\']+)["\']
            <<L(<<"t", "a", "m", "b", "a", "h", "k", "a", "n">>), Cls("[\\s:]", 1, 99, TRUE), Cls("[\"']", 1, 1, TRUE), GOpen(1), Cls("[^\"']", 1, 99, TRUE), GClose(1), Cls("[\"']", 1, 1, TRUE)>>,
            \* tambahkan[\s:]+([^\n]+)
            <<L(<<"t", "a", "m", "b", "a", "h", "k", "a", "n">>), Cls("[\\s:]", 1, 99, TRUE), GOpen(1), Cls(".", 1, 99, TRUE), GClose(1)>>,
            \* add[\s:]+["\']([^"\']+)["\']
            <<L(<<"a", "d", "d">>), Cls("[\\s:]", 1, 99, TRUE), Cls("[\"']", 1, 1, TRUE), GOpen(1), Cls("[^\"']", 1, 99, TRUE), GClose(1), Cls("[\"']", 1, 1, TRUE)>>,
            \* add[\s:]+([^\n]+)
            <<L(<<"a", "d", "d">>), Cls("[\\s:]", 1, 99, TRUE), GOpen(1), Cls(".", 1, 99, TRUE), GClose(1)>> >>
    IN WithBackup(
           WithContent(
               StandaloneFile(PathWithFolder(text, path_patterns, <<<<"d", "i", " ", "f", "o", "l", "d", "e", "r">>, <<"i", "n", " ", "f", "o", "l", "d", "e", "r">>, <<"t", "o", " ", "f", "o", "l", "d", "e", "r">>>>),
                              text, file_patterns, TRUE),
               text, content_patterns),
           text)

\* REPL._extract_file_list_params
_extract_file_list_params(text) ==
    LET current_dir_patterns == <<<<"d", "i", "r", "e", "c", "t", "o", "r", "y", " ", "i", "n", "i">>, <<"d", "i", "r", "e", "k", "t", "o", "r", "i", " ", "i", "n", "i">>, <<"f", "o", "l", "d", "e", "r", " ", "i", "n", "i">>, <<"h", "e", "r", "e">>, <<"c", "u", "r", "r", "e", "n", "t", " ", "d", "i", "r", "e", "c", "t", "o", "r", "y">>, <<"c", "u", "r", "r", "e", "n", "t", " ", "f", "o", "l", "d", "e", "r">>, <<"t", "h", "i", "s", " ", "d", "i", "r", "e", "c", "t", "o", "r", "y">>, <<"t", "h", "i", "s", " ", "f", "o", "l", "d", "e", "r">>>>
        path_patterns == <<
            \* /[\w/]+
            <<L(<<"/">>), Cls("[\\w/]", 1, 99, TRUE)>>,
            \* \.\/[\w/]+
            <<L(<<".", "/">>), Cls("[\\w/]", 1, 99, TRUE)>>,
            \* dari ([A-Za-z0-9_-]+)(?!\.[A-Za-z]+)
            <<L(<<"d", "a", "r", "i", " ">>), GOpen(1), Cls("[A-Za-z0-9_-]", 1, 99, TRUE), GClose(1), NotAhead(<<L(<<".">>), Cls("[A-Za-z]", 1, 99, TRUE)>>)>>,
            \* directory ([A-Za-z0-9_-]+)
            <<L(<<"d", "i", "r", "e", "c", "t", "o", "r", "y", " ">>), GOpen(1), Cls("[A-Za-z0-9_-]", 1, 99, TRUE), GClose(1)>>,
            \* folder ([A-Za-z0-9_-]+)
            <<L(<<"f", "o", "l", "d", "e", "r", " ">>), GOpen(1), Cls("[A-Za-z0-9_-]", 1, 99, TRUE), GClose(1)>> >>
    IN WithListPath(WithRecursive(ListPattern(text), text),
                    text, path_patterns, current_dir_patterns)

\* an extractor that takes the whole text for the command
extract_Command(text) == Put(EmptyMap, "command", PyStr(text))

\* REPL._extract_shell_params
_extract_shell_params(text) == EmptyMap

\* REPL._extract_python_params
_extract_python_params(text) == EmptyMap

(***************************************************************************)
(* REPL.detect_and_execute_tools                                           *)
(***************************************************************************)
\* an entry of the rule list: (pattern, tool_name, default_params)
Rule(pattern, tool, default_params) ==
    [pattern |-> pattern, tool |-> tool, default_params |-> default_params]

\* file_patterns: write, edit, read and list rules
file_patterns == <<
    \* buat.*file.*\.[\w]+
    Rule(<<<<L(<<"b","u","a","t">>), DotStar, L(<<"f","i","l","e">>), DotStar, L(<<".">>), Word>>>>,
         "file_write", EmptyMap),
    \* create.*file.*\.[\w]+
    Rule(<<<<L(<<"c","r","e","a","t","e">>), DotStar, L(<<"f","i","l","e">>), DotStar, L(<<".">>), Word>>>>,
         "file_write", EmptyMap),
    \* write.*to.*\.[\w]+
    Rule(<<<<L(<<"w","r","i","t","e">>), DotStar, L(<<"t","o">>), DotStar, L(<<".">>), Word>>>>,
         "file_write", EmptyMap),
    \* tulis.*ke.*\.[\w]+
    Rule(<<<<L(<<"t","u","l","i","s">>), DotStar, L(<<"k","e">>), DotStar, L(<<".">>), Word>>>>,
         "file_write", EmptyMap),
    \* simpan.*ke.*\.[\w]+
    Rule(<<<<L(<<"s","i","m","p","a","n">>), DotStar, L(<<"k","e">>), DotStar, L(<<".">>), Word>>>>,
         "file_write", EmptyMap),
    \* save.*to.*\.[\w]+
    Rule(<<<<L(<<"s","a","v","e">>), DotStar, L(<<"t","o">>), DotStar, L(<<".">>), Word>>>>,
         "file_write", EmptyMap),
    \* tambahkan.*ke.*\.[\w]+
    Rule(<<<<L(<<"t","a","m","b","a","h","k","a","n">>), DotStar, L(<<"k","e">>), DotStar, L(<<".">>), Word>>>>,
         "file_write", EmptyMap),
    \* add.*to.*\.[\w]+
    Rule(<<<<L(<<"a","d","d">>), DotStar, L(<<"t","o">>), DotStar, L(<<".">>), Word>>>>,
         "file_write", EmptyMap),
    \* buat.*file
    Rule(<<<<L(<<"b","u","a","t">>), DotStar, L(<<"f","i","l","e">>)>>>>,
         "file_write", EmptyMap),
    \* create.*file
    Rule(<<<<L(<<"c","r","e","a","t","e">>), DotStar, L(<<"f","i","l","e">>)>>>>,
         "file_write", EmptyMap),
    \* write.*file
    Rule(<<<<L(<<"w","r","i","t","e">>), DotStar, L(<<"f","i","l","e">>)>>>>,
         "file_write", EmptyMap),
    \* tulis.*file
    Rule(<<<<L(<<"t","u","l","i","s">>), DotStar, L(<<"f","i","l","e">>)>>>>,
         "file_write", EmptyMap),
    \* edit.*\.[\w]+
    Rule(<<<<L(<<"e","d","i","t">>), DotStar, L(<<".">>), Word>>>>,
         "file_edit", EmptyMap),
    \* ubah.*\.[\w]+
    Rule(<<<<L(<<"u","b","a","h">>), DotStar, L(<<".">>), Word>>>>,
         "file_edit", EmptyMap),
    \* modify.*\.[\w]+
    Rule(<<<<L(<<"m","o","d","i","f","y">>), DotStar, L(<<".">>), Word>>>>,
         "file_edit", EmptyMap),
    \* update.*\.[\w]+
    Rule(<<<<L(<<"u","p","d","a","t","e">>), DotStar, L(<<".">>), Word>>>>,
         "file_edit", EmptyMap),
    \* ganti.*isi.*\.[\w]+
    Rule(<<<<L(<<"g","a","n","t","i">>), DotStar, L(<<"i","s","i">>), DotStar, L(<<".">>), Word>>>>,
         "file_edit", EmptyMap),
    \* change.*content.*\.[\w]+
    Rule(<<<<L(<<"c","h","a","n","g","e">>), DotStar, L(<<"c","o","n","t","e","n","t">>), DotStar, L(<<".">>), Word>>>>,
         "file_edit", EmptyMap),
    \* edit.*isi.*\.[\w]+
    Rule(<<<<L(<<"e","d","i","t">>), DotStar, L(<<"i","s","i">>), DotStar, L(<<".">>), Word>>>>,
         "file_edit", EmptyMap),
    \* apa.*isi.*dari.*\.[\w]+
    Rule(<<<<L(<<"a","p","a">>), DotStar, L(<<"i","s","i">>), DotStar, L(<<"d","a","r","i">>), DotStar, L(<<".">>), Word>>>>,
         "file_read", EmptyMap),
    \* baca.*\.[\w]+
    Rule(<<<<L(<<"b","a","c","a">>), DotStar, L(<<".">>), Word>>>>,
         "file_read", EmptyMap),
    \* tampilkan.*isi.*\.[\w]+
    Rule(<<<<L(<<"t","a","m","p","i","l","k","a","n">>), DotStar, L(<<"i","s","i">>), DotStar, L(<<".">>), Word>>>>,
         "file_read", EmptyMap),
    \* lihat.*isi.*\.[\w]+
    Rule(<<<<L(<<"l","i","h","a","t">>), DotStar, L(<<"i","s","i">>), DotStar, L(<<".">>), Word>>>>,
         "file_read", EmptyMap),
    \* show.*content.*\.[\w]+
    Rule(<<<<L(<<"s","h","o","w">>), DotStar, L(<<"c","o","n","t","e","n","t">>), DotStar, L(<<".">>), Word>>>>,
         "file_read", EmptyMap),
    \* read.*\.[\w]+
    Rule(<<<<L(<<"r","e","a","d">>), DotStar, L(<<".">>), Word>>>>,
         "file_read", EmptyMap),
    \* open.*\.[\w]+
    Rule(<<<<L(<<"o","p","e","n">>), DotStar, L(<<".">>), Word>>>>,
         "file_read", EmptyMap),
    \* list.*isi.*dari.*\.[\w]+
    Rule(<<<<L(<<"l","i","s","t">>), DotStar, L(<<"i","s","i">>), DotStar, L(<<"d","a","r","i">>), DotStar, L(<<".">>), Word>>>>,
         "file_read", EmptyMap),
    \* dapat.*melihat.*isi.*\.[\w]+
    Rule(<<<<L(<<"d","a","p","a","t">>), DotStar, L(<<"m","e","l","i","h","a","t">>), DotStar, L(<<"i","s","i">>), DotStar, L(<<".">>), Word>>>>,
         "file_read", EmptyMap),
    \* can.*see.*content.*\.[\w]+
    Rule(<<<<L(<<"c","a","n">>), DotStar, L(<<"s","e","e">>), DotStar, L(<<"c","o","n","t","e","n","t">>), DotStar, L(<<".">>), Word>>>>,
         "file_read", EmptyMap),
    \* what.*in.*\.[\w]+
    Rule(<<<<L(<<"w","h","a","t">>), DotStar, L(<<"i","n">>), DotStar, L(<<".">>), Word>>>>,
         "file_read", EmptyMap),
    \* view.*\.[\w]+
    Rule(<<<<L(<<"v","i","e","w">>), DotStar, L(<<".">>), Word>>>>,
         "file_read", EmptyMap),
    \* cat.*\.[\w]+
    Rule(<<<<L(<<"c","a","t">>), DotStar, L(<<".">>), Word>>>>,
         "file_read", EmptyMap),
    \* apa.*kamu.*dapat.*melihat.*isi
    Rule(<<<<L(<<"a","p","a">>), DotStar, L(<<"k","a","m","u">>), DotStar, L(<<"d","a","p","a","t">>), DotStar, L(<<"m","e","l","i","h","a","t">>), DotStar, L(<<"i","s","i">>)>>>>,
         "file_read", EmptyMap),
    \* can.*you.*see.*content
    Rule(<<<<L(<<"c","a","n">>), DotStar, L(<<"y","o","u">>), DotStar, L(<<"s","e","e">>), DotStar, L(<<"c","o","n","t","e","n","t">>)>>>>,
         "file_read", EmptyMap),
    \* show.*me.*the.*content
    Rule(<<<<L(<<"s","h","o","w">>), DotStar, L(<<"m","e">>), DotStar, L(<<"t","h","e">>), DotStar, L(<<"c","o","n","t","e","n","t">>)>>>>,
         "file_read", EmptyMap),
    \* apa.*isi.*dari.*config
    Rule(<<<<L(<<"a","p","a">>), DotStar, L(<<"i","s","i">>), DotStar, L(<<"d","a","r","i">>), DotStar, L(<<"c","o","n","f","i","g">>)>>>>,
         "file_read", EmptyMap),
    \* apa.*isi.*dari.*readme
    Rule(<<<<L(<<"a","p","a">>), DotStar, L(<<"i","s","i">>), DotStar, L(<<"d","a","r","i">>), DotStar, L(<<"r","e","a","d","m","e">>)>>>>,
         "file_read", EmptyMap),
    \* edit.*\.[\w]+
    Rule(<<<<L(<<"e","d","i","t">>), DotStar, L(<<".">>), Word>>>>,
         "file_edit", EmptyMap),
    \* ubah.*\.[\w]+
    Rule(<<<<L(<<"u","b","a","h">>), DotStar, L(<<".">>), Word>>>>,
         "file_edit", EmptyMap),
    \* modify.*\.[\w]+
    Rule(<<<<L(<<"m","o","d","i","f","y">>), DotStar, L(<<".">>), Word>>>>,
         "file_edit", EmptyMap),
    \* update.*\.[\w]+
    Rule(<<<<L(<<"u","p","d","a","t","e">>), DotStar, L(<<".">>), Word>>>>,
         "file_edit", EmptyMap),
    \* change.*\.[\w]+
    Rule(<<<<L(<<"c","h","a","n","g","e">>), DotStar, L(<<".">>), Word>>>>,
         "file_edit", EmptyMap),
    \* ganti.*isi.*\.[\w]+
    Rule(<<<<L(<<"g","a","n","t","i">>), DotStar, L(<<"i","s","i">>), DotStar, L(<<".">>), Word>>>>,
         "file_edit", EmptyMap),
    \* edit file
    Rule(<<<<L(<<"e","d","i","t"," ","f","i","l","e">>)>>>>,
         "file_edit", EmptyMap),
    \* ubah file
    Rule(<<<<L(<<"u","b","a","h"," ","f","i","l","e">>)>>>>,
         "file_edit", EmptyMap),
    \* berapa.*file.*\.py
    Rule(<<<<L(<<"b","e","r","a","p","a">>), DotStar, L(<<"f","i","l","e">>), DotStar, L(<<".","p","y">>)>>>>,
         "file_list", [pattern |-> PyStr(<<"*",".","p","y">>), recursive |-> PyBool(TRUE)]),
    \* list.*file.*\.py
    Rule(<<<<L(<<"l","i","s","t">>), DotStar, L(<<"f","i","l","e">>), DotStar, L(<<".","p","y">>)>>>>,
         "file_list", [pattern |-> PyStr(<<"*",".","p","y">>)]),
    \* ada berapa.*file
    Rule(<<<<L(<<"a","d","a"," ","b","e","r","a","p","a">>), DotStar, L(<<"f","i","l","e">>)>>>>,
         "file_list", EmptyMap),
    \* count.*file
    Rule(<<<<L(<<"c","o","u","n","t">>), DotStar, L(<<"f","i","l","e">>)>>>>,
         "file_list", EmptyMap),
    \* list.*file(?!\s*\.)
    Rule(<<<<L(<<"l","i","s","t">>), DotStar, L(<<"f","i","l","e">>), NoDotAhead>>>>,
         "file_list", EmptyMap),
    \* show.*file(?!\s*\.)
    Rule(<<<<L(<<"s","h","o","w">>), DotStar, L(<<"f","i","l","e">>), NoDotAhead>>>>,
         "file_list", EmptyMap),
    \* cari.*file
    Rule(<<<<L(<<"c","a","r","i">>), DotStar, L(<<"f","i","l","e">>)>>>>,
         "file_list", [recursive |-> PyBool(TRUE)]),
    \* list.*isi.*dari.*[^\.]+$
    Rule(<<<<L(<<"l","i","s","t">>), DotStar, L(<<"i","s","i">>), DotStar, L(<<"d","a","r","i">>), DotStar, NotDot, End>>>>,
         "file_list", EmptyMap),
    \* apa.*isi.*dari.*[^\.]+$
    Rule(<<<<L(<<"a","p","a">>), DotStar, L(<<"i","s","i">>), DotStar, L(<<"d","a","r","i">>), DotStar, NotDot, End>>>>,
         "file_list", EmptyMap)
>>

\* shell_patterns
shell_patterns == <<
    \* execute|run|jalankan
    Rule(<<<<L(<<"e","x","e","c","u","t","e">>)>>, <<L(<<"r","u","n">>)>>, <<L(<<"j","a","l","a","n","k","a","n">>)>>>>,
         "shell_exec", EmptyMap),
    \* command|perintah
    Rule(<<<<L(<<"c","o","m","m","a","n","d">>)>>, <<L(<<"p","e","r","i","n","t","a","h">>)>>>>,
         "shell_exec", EmptyMap)
>>

\* directory_patterns
directory_patterns == <<
    \* berapa.*folder|count.*director
    Rule(<<<<L(<<"b","e","r","a","p","a">>), DotStar, L(<<"f","o","l","d","e","r">>)>>, <<L(<<"c","o","u","n","t">>), DotStar, L(<<"d","i","r","e","c","t","o","r">>)>>>>,
         "file_list", [recursive |-> PyBool(TRUE)]),
    \* list.*director|show.*director
    Rule(<<<<L(<<"l","i","s","t">>), DotStar, L(<<"d","i","r","e","c","t","o","r">>)>>, <<L(<<"s","h","o","w">>), DotStar, L(<<"d","i","r","e","c","t","o","r">>)>>>>,
         "file_list", EmptyMap)
>>

\* python_patterns
python_patterns == <<
    \* execute.*python|run.*python
    Rule(<<<<L(<<"e","x","e","c","u","t","e">>), DotStar, L(<<"p","y","t","h","o","n">>)>>, <<L(<<"r","u","n">>), DotStar, L(<<"p","y","t","h","o","n">>)>>>>,
         "python_exec", EmptyMap),
    \* calculate|hitung|kalkulasi
    Rule(<<<<L(<<"c","a","l","c","u","l","a","t","e">>)>>, <<L(<<"h","i","t","u","n","g">>)>>, <<L(<<"k","a","l","k","u","l","a","s","i">>)>>>>,
         "python_exec", EmptyMap)
>>

\* the rule list with the file-write rules moved behind the other file rules
all_patterns_WriteLast ==
    SubSeq(file_patterns, 13, Len(file_patterns)) \o SubSeq(file_patterns, 1, 12)
        \o shell_patterns \o directory_patterns \o python_patterns

\* all_patterns = file_patterns + shell_patterns + directory_patterns + python_patterns
all_patterns ==
    file_patterns \o shell_patterns \o directory_patterns \o python_patterns

\* the loop over all_patterns running to its end and keeping the last rule
\* that matched, instead of returning at the first
DetectLoop_LastMatch(text, i, seen) ==
    LET rest == i..Len(all_patterns)
        m    == { j \in rest : Search(all_patterns[j].pattern, text) }
    IN [selected  |-> IF m = {} THEN 0 ELSE CHOOSE j \in m : \A k \in m : k <= j,
        evaluated |-> seen \cup rest]

\* for pattern, tool_name, default_params in all_patterns:
\*     if re.search(pattern, user_input_lower): return await ...
\* return None
\* from the i-th rule on, having searched the patterns of the rules in seen
RECURSIVE DetectLoop(_, _, _)
DetectLoop(text, i, seen) ==
    IF i > Len(all_patterns)
    THEN [selected |-> 0, evaluated |-> seen]
    ELSE IF Search(all_patterns[i].pattern, text)
         THEN [selected |-> i, evaluated |-> seen \cup {i}]
         ELSE DetectLoop(text, i + 1, seen \cup {i})

\* the words the texts are made of
Words ==
    { <<"R","u","n">>, <<"p","y","t","h","o","n">>, <<"c","r","e","a","t","e">>,
      <<"f","i","l","e">>, <<"n","o","t","e","s",".","t","x","t">>,
      <<"b","a","c","a">>, <<"l","i","s","t">>, <<"e","d","i","t">>,
      <<"h","i","t","u","n","g">>, <<"d","i","r","e","c","t","o","r","y">> }

\* the largest number of words of a text
MaxWords == 2

\* " ".join(ws)
RECURSIVE Join(_)
Join(ws) ==
    IF Len(ws) = 0 THEN <<>>
    ELSE IF Len(ws) = 1 THEN ws[1]
         ELSE ws[1] \o <<" ">> \o Join(Tail(ws))

\* longer requests
Phrases ==
    { \* create file notes.txt
      <<"c","r","e","a","t","e"," ","f","i","l","e"," ","n","o","t","e","s",".","t","x","t">>,
      \* create file readme.txt
      <<"c","r","e","a","t","e"," ","f","i","l","e"," ","r","e","a","d","m","e",".","t","x","t">>,
      \* write to notes.txt
      <<"w","r","i","t","e"," ","t","o"," ","n","o","t","e","s",".","t","x","t">> }

\* the texts the user types
Texts ==
    { Join(ws) : ws \in UNION { [1..n -> Words] : n \in 1..MaxWords } } \cup Phrases

\* the parameters _execute_detected_tool hands to the registry:
\* default_params.copy() updated with what the extractor of the tool finds
\* in the text
DetectedParams(text, tool_name, default_params) ==
    Update(default_params,
        CASE tool_name = "file_list"   -> _extract_file_list_params(text)
          [] tool_name = "shell_exec"  -> _extract_shell_params(text)
          [] tool_name = "python_exec" -> _extract_python_params(text)
          [] tool_name = "file_read"   -> _extract_file_read_params(text)
          [] tool_name = "file_write"  -> _extract_file_write_params(text)
          [] tool_name = "file_edit"   -> _extract_file_edit_params(text)
          [] OTHER                     -> EmptyMap)

\* self.tools_registry.execute_tool(tool_name, **kw) on the registry of the
\* built-in tools, the tool running in the environment e
execute_builtin_tool(name, kw, e) ==
    IF "name" \in DOMAIN kw \/ "self" \in DOMAIN kw
    THEN Raised("TypeError")
    ELSE LET tool == get_tool(name) IN
         IF tool = PyNone
         THEN Returned(ToolResult(FALSE, PyNone,
                                  FStr(<<Lit("Tool '"), Name(name), Lit("' not found")>>)))
         ELSE LET v == validate_parameters(tool.params, kw) IN
              IF v.st = "raised"
              THEN Returned(ToolResult(FALSE, PyNone,
                       FStr(<<Lit("Tool execution failed: ")>> \o v.msg)))
              ELSE BuiltinExecute(name, v.value, e)

\* the environments a detected tool may run in; there is none to choose
\* when the tool's execute is not reached (the tool is not registered, or
\* the parameters do not pass validation)
DetectedEnvs(name, kw) ==
    IF /\ name \in DefaultNames
       /\ validate_parameters(DefaultTool(name).params, kw).st = "returned"
    THEN CallEnvs(name)
    ELSE {[none |-> TRUE]}

\* _execute_detected_tool handing back a dict for a failed result as well
ExecuteDetectedResult_KeepFailure(tool_name, r) ==
    IF r.st = "raised" THEN Returned(PyDict([tool |-> tool_name, raw_result |-> PyNone]))
    ELSE Returned(PyDict([tool |-> tool_name, raw_result |-> r.value.data]))

\* _execute_detected_tool: a dict for a successful ToolResult, None for a
\* failed one and for an Exception; a BaseException passes through
ExecuteDetectedResult(tool_name, r) ==
    IF r.st = "raised"
    THEN IF r.exc = "BaseException" THEN r ELSE Returned(PyNone)
    ELSE IF r.value.success
         THEN Returned(PyDict([tool |-> tool_name, raw_result |-> r.value.data]))
         ELSE Returned(PyNone)

\* process_input calls detect_and_execute_tools(user_input); the REPL's
\* registry is the default registry
InitIntent ==
    /\ user_input \in Texts
    /\ pc = "detect"
    /\ selected = 0
    /\ evaluated = {}
    /\ toolCalls = <<>>
    /\ tool_result = Pending
    /\ messages = <<>>
    /\ request = Pending
    /\ _tools = default_registry.tools
    /\ _categories = default_registry.categories
    /\ last = [op |-> "none"]
    /\ prev = [op |-> "none"]
    /\ ExtIdle /\ FileIdle /\ ShellIdle /\ ValIdle /\ ToolIdle

\* a detector that calls the tool of every rule that matches
Detect_EveryMatch ==
    /\ pc = "detect"
    /\ LET m == { i \in 1..Len(all_patterns) :
                    Search(all_patterns[i].pattern, Lower(user_input)) }
           RECURSIVE Calls(_)
           Calls(i) ==
               IF i > Len(all_patterns) THEN <<>>
               ELSE (IF i \in m
                     THEN <<[tool |-> all_patterns[i].tool,
                             default_params |-> all_patterns[i].default_params]>>
                     ELSE <<>>) \o Calls(i + 1)
       IN /\ selected' = IF m = {} THEN 0 ELSE CHOOSE i \in m : \A j \in m : i <= j
          /\ evaluated' = 1..Len(all_patterns)
          /\ toolCalls' = Calls(1)
          /\ pc' = IF m = {} THEN "done" ELSE "execute"
          /\ tool_result' = IF m = {} THEN Returned(PyNone) ELSE tool_result
    /\ UNCHANGED <<user_input, messages, request>>
    /\ UNCHANGED <<extVars, osVars, valVars, regVars, toolVars>>

\* detect_and_execute_tools up to the call of _execute_detected_tool, or
\* to its return None
Detect ==
    /\ pc = "detect"
    /\ LET user_input_lower == Lower(user_input)
           d == DetectLoop(user_input_lower, 1, {})
       IN /\ selected' = d.selected
          /\ evaluated' = d.evaluated
          /\ IF d.selected # 0
             THEN /\ toolCalls' = Append(toolCalls,
                        [tool |-> all_patterns[d.selected].tool,
                         default_params |-> all_patterns[d.selected].default_params])
                  /\ pc' = "execute"
                  /\ UNCHANGED tool_result
             ELSE /\ pc' = "done"
                  /\ tool_result' = Returned(PyNone)
                  /\ UNCHANGED toolCalls
    /\ UNCHANGED <<user_input, messages, request>>
    /\ UNCHANGED <<extVars, osVars, valVars, regVars, toolVars>>

\* _execute_detected_tool(user_input, tool_name, default_params) and the
\* return of its value
ExecuteDetectedTool ==
    /\ pc = "execute"
    /\ LET c == toolCalls[Len(toolCalls)] IN
       \E params \in {DetectedParams(user_input, c.tool, c.default_params)} :
       \E e \in DetectedEnvs(c.tool, params) :
            /\ call' = [tool |-> c.tool, kw |-> params, e |-> e,
                        validated |-> IF c.tool \in DefaultNames
                                      THEN validate_parameters(
                                               DefaultTool(c.tool).params, params)
                                      ELSE Pending]
            /\ result' = execute_builtin_tool(c.tool, params, e)
            /\ tool_result' = ExecuteDetectedResult(c.tool, result')
    /\ pc' = "done"
    /\ UNCHANGED <<user_input, selected, evaluated, toolCalls, messages, request>>
    /\ UNCHANGED <<extVars, osVars, valVars, regVars>>

NextIntent == Detect \/ ExecuteDetectedTool

SpecIntent == InitIntent /\ [][NextIntent]_vars

(***************************************************************************)
(* SpecTurn: REPL.process_input, one user turn from the call of            *)
(* detect_and_execute_tools to the response of the model                   *)
(***************************************************************************)
\* a message of the conversation; its content is kept as fragments
Message(role, content) == [role |-> role, content |-> content]

\* ConversationHistory.system_message
system_message == Message("system", <<Lit("You are a helpful AI assistant.")>>)

\* ConversationHistory.max_history, as ConversationHistory() sets it
max_history == 100

\* list[-k:]
LastK(seq, k) ==
    IF k = 0 \/ k >= Len(seq) THEN seq ELSE SubSeq(seq, Len(seq) - k + 1, Len(seq))

\* ConversationHistory.add_message(role, content) on the stored messages
add_message(msgs, max, role, content) ==
    LET m1 == Append(msgs, Message(role, content)) IN
    IF Len(m1) > max THEN <<system_message>> \o LastK(m1, max - 1) ELSE m1

\* ConversationHistory.get_messages()
get_messages(msgs) == <<system_message>> \o msgs

\* the conversation before the turn
PriorHistories ==
    { <<>>,
      << Message("user", <<Val(PyStr(<<"h","e","l","l","o">>))>>),
         Message("assistant", <<Val(PyStr(<<"h","i">>))>>) >> }

\* the texts of the turns: no rule matches, shell_exec, python_exec,
\* file_read, file_write, file_list, file_edit
TurnTexts ==
    { <<"p","y","t","h","o","n">>,
      <<"R","u","n"," ","p","y","t","h","o","n">>,
      <<"h","i","t","u","n","g">>,
      <<"b","a","c","a"," ","n","o","t","e","s",".","t","x","t">>,
      <<"c","r","e","a","t","e"," ","f","i","l","e"," ","n","o","t","e","s",".","t","x","t">>,
      <<"l","i","s","t"," ","f","i","l","e">>,
      <<"e","d","i","t"," ","n","o","t","e","s",".","t","x","t">> }

\* what the client gives back: a response, an empty response, an Exception
Replies == { Returned(PyStr(<<"o","k">>)), Returned(PyStr(<<>>)), Raised("Exception") }

\* f"\n\n[Tool Result: {tool_result['summary']}]\n{tool_result['data']}\n",
\* the summary and the data being the texts _execute_detected_tool makes
\* of the tool's name and of result.data
tool_context(tr) ==
    IF tr.v.tool = "file_list"
    THEN <<Lit("\n\n[Tool Result: "), Lit("Found "), Val(tr.v.raw_result), Lit(" items"),
           Lit("]\n"), Lit("Files: "), Val(tr.v.raw_result), Lit("\n")>>
    ELSE <<Lit("\n\n[Tool Result: "), Lit("Executed "), Lit(tr.v.tool),
           Lit("]\n"), Val(tr.v.raw_result), Lit("\n")>>

\* process_input after self.history.add_message("user", user_input)
InitTurn ==
    /\ user_input \in TurnTexts
    /\ \E prior \in PriorHistories :
          messages = add_message(prior, max_history, "user", <<Val(PyStr(user_input))>>)
    /\ request = Pending
    /\ pc = "detect"
    /\ selected = 0
    /\ evaluated = {}
    /\ toolCalls = <<>>
    /\ tool_result = Pending
    /\ _tools = default_registry.tools
    /\ _categories = default_registry.categories
    /\ last = [op |-> "none"]
    /\ prev = [op |-> "none"]
    /\ ExtIdle /\ FileIdle /\ ShellIdle /\ ValIdle /\ ToolIdle

\* process_input from messages = self.history.get_messages() on: the tool
\* result, when there is one, is appended to the content of the last
\* message, which is the dict the history holds; the request goes to the
\* client, streamed or not, and the response is added to the history
GenerateResponse ==
    /\ pc = "done"
    /\ tool_result.st = "returned"
    /\ \E stream \in BOOLEAN : \E reply \in Replies :
         LET msgs == get_messages(messages)
             n    == Len(msgs)
             augment == tool_result.value # PyNone /\ msgs[n].role = "user"
             sent == IF augment
                     THEN [msgs EXCEPT ![n].content = @ \o tool_context(tool_result.value)]
                     ELSE msgs
             hist == IF augment /\ Len(messages) > 0
                     THEN [messages EXCEPT ![Len(messages)].content =
                               @ \o tool_context(tool_result.value)]
                     ELSE messages
         IN /\ request' = sent
            /\ messages' =
                 IF reply.st = "raised" THEN hist
                 ELSE IF stream /\ Len(reply.value.v) = 0 THEN hist
                      ELSE add_message(hist, max_history, "assistant", <<Val(reply.value)>>)
    /\ pc' = "responded"
    /\ UNCHANGED <<user_input, selected, evaluated, toolCalls, tool_result>>
    /\ UNCHANGED <<extVars, osVars, valVars, regVars, toolVars>>

NextTurn == Detect \/ ExecuteDetectedTool \/ GenerateResponse

SpecTurn == InitTurn /\ [][NextTurn]_vars

\* the requests and stored histories a turn with this text ends with when
\* no tool takes part
PlainTurns ==
    UNION { LET h == add_message(prior, max_history, "user", <<Val(PyStr(user_input))>>) IN
            { [request |-> get_messages(h), messages |-> m] :
                 m \in {h} \cup { add_message(h, max_history, "assistant", <<Val(r.value)>>) :
                                     r \in { x \in Replies : x.st = "returned" } } } :
            prior \in PriorHistories }

\* the detected tool did not succeed
DetectedToolFailed ==
    /\ selected # 0
    /\ result # Pending
    /\ result.st = "raised" \/ ~result.value.success

\* C14: a failed auto-detected tool call is no augmentation: at the end of a
\* turn whose detected tool returned a failed result or raised, the
\* messages sent to the model and the stored history are those of a turn
\* with the same text and no tool.
C14_FailedToolNoAugmentation ==
    (pc = "responded" /\ DetectedToolFailed) =>
        [request |-> request, messages |-> messages] \in PlainTurns

\* a turn with a failed tool call has been answered
C14_Witness ==
    /\ pc = "responded"
    /\ DetectedToolFailed
    /\ Len(messages) > 0 /\ messages[Len(messages)].role = "assistant"

\* C15: one tool invocation at most per turn, awaited before the request:
\* never more than one call of _execute_detected_tool; while it runs there
\* is no request; a request is built only after detect_and_execute_tools
\* returned, the registry having answered the call if there was one.
C15_OneToolAwaited ==
    /\ Len(toolCalls) <= 1
    /\ pc = "execute" => (Len(toolCalls) = 1 /\ result = Pending /\ request = Pending)
    /\ request # Pending =>
          /\ tool_result.st = "returned"
          /\ Len(toolCalls) = 1 => result # Pending
          /\ Len(toolCalls) = 0 => result = Pending

\* a turn in which a tool ran successfully has been answered
C15_Witness ==
    /\ pc = "responded"
    /\ Len(toolCalls) = 1
    /\ result.st = "returned" /\ result.value.success
    /\ request # Pending

\* the rules whose pattern matches the lowercased text
Matching == { i \in 1..Len(all_patterns) :
                 Search(all_patterns[i].pattern, Lower(user_input)) }

\* C9: detection is first-match-wins: once the detector has run, the
\* selected rule is the earliest rule of the list whose pattern matches the
\* lowercased text, only the rules up to it were evaluated, the one tool
\* called is the selected rule's; when no rule matches, every rule was
\* evaluated, no tool is called and the detector returns None.
C9_FirstMatchWins ==
    pc # "detect" =>
        IF Matching = {}
        THEN /\ selected = 0
             /\ evaluated = 1..Len(all_patterns)
             /\ toolCalls = <<>>
             /\ tool_result = Returned(PyNone)
        ELSE /\ selected \in Matching
             /\ \A i \in Matching : selected <= i
             /\ evaluated = 1..selected
             /\ Len(toolCalls) = 1
             /\ toolCalls[1].tool = all_patterns[selected].tool

\* a text matched by two rules with different tools has been detected and
\* the earlier rule's tool has run
C9_Witness ==
    /\ pc = "done"
    /\ selected # 0
    /\ \E i \in Matching : i > selected /\ all_patterns[i].tool # all_patterns[selected].tool
    /\ Len(toolCalls) = 1

\* a text no rule matches has been through the detector
C9_WitnessNoMatch ==
    /\ pc = "done"
    /\ Matching = {}

\* the tools of the rules that match the lowercased text
MatchingTools == { all_patterns[i].tool : i \in Matching }

\* C11: write-verb rules come before read-verb rules: a text matched by a
\* file-write rule and by a file-read rule selects file_write, and so does
\* the text "create file notes.txt".
C11_WriteBeforeRead ==
    pc # "detect" =>
        /\ ("file_write" \in MatchingTools /\ "file_read" \in MatchingTools)
               => (selected # 0 /\ all_patterns[selected].tool = "file_write")
        /\ user_input = <<"c","r","e","a","t","e"," ","f","i","l","e"," ","n","o","t","e","s",".","t","x","t">>
               => (selected # 0 /\ all_patterns[selected].tool = "file_write")

\* a text matched by a write rule and by a read rule has been detected and
\* file_write was called for it
C11_Witness ==
    /\ pc = "done"
    /\ "file_write" \in MatchingTools /\ "file_read" \in MatchingTools
    /\ Len(toolCalls) = 1 /\ toolCalls[1].tool = "file_write"

\* C12: the read round trip: from "baca notes.txt" the detector extracts
\* exactly {path: "notes.txt"} for file_read, and with the file absent the
\* registry returns a failure whose error is the tool's "File not found"
\* for that path, not the wrapped validation error; whenever file_read is
\* detected with a path and the file is absent the error is of that kind.
C12_ReadRoundTrip ==
    (pc = "done" /\ call.tool = "file_read") =>
        /\ user_input = <<"b","a","c","a"," ","n","o","t","e","s",".","t","x","t">>
              => call.kw = Put(EmptyMap, "path", PyStr(<<"n","o","t","e","s",".","t","x","t">>))
        /\ ("path" \in DOMAIN call.kw /\ call.e.resolve = "ok" /\ ~call.e.exists)
              => /\ result.st = "returned"
                 /\ ~result.value.success
                 /\ result.value.error =
                        FStr(<<Lit("File not found: "), Val(call.kw.path)>>)
                 /\ ~MentionsText(result.value.error.v, "Tool execution failed: ")
                 /\ tool_result = Returned(PyNone)

\* "baca notes.txt" went through detection and file_read ran with the file
\* absent
C12_Witness ==
    /\ pc = "done"
    /\ user_input = <<"b","a","c","a"," ","n","o","t","e","s",".","t","x","t">>
    /\ call.tool = "file_read"
    /\ call.e.resolve = "ok" /\ ~call.e.exists
    /\ result.st = "returned" /\ ~result.value.success

\* C13: extraction is best-effort: the registry returns a ToolResult for
\* every detected call (no exception); a parameter the text gives no signal
\* for is absent from the mapping (shell_exec and python_exec get the
\* default_params alone; file_write gets no content without a create verb
\* or content phrase, and no backup without the word); an absent optional
\* parameter is validated to its declared default and an absent required
\* one ends in a failed ToolResult naming it.
C13_BestEffortExtraction ==
    (pc = "done" /\ selected # 0) =>
        /\ result.st = "returned"
        /\ call.tool \in {"shell_exec", "python_exec"}
              => call.kw = all_patterns[selected].default_params
        /\ (call.tool = "file_write"
              /\ ~ContainsAny(Lower(user_input),
                     <<<<"b","u","a","t">>, <<"c","r","e","a","t","e">>, <<"i","s","i">>, <<"c","o","n","t","e","n","t">>, <<"d","e","n","g","a","n">>, <<"w","i","t","h">>, <<"t","a","m","b","a","h","k","a","n">>, <<"a","d","d">>>>))
              => "content" \notin DOMAIN call.kw
        /\ (call.tool = "file_write"
              /\ ~ContainsAny(Lower(user_input), <<<<"b","a","c","k","u","p">>, <<"c","a","d","a","n","g","a","n">>>>))
              => "backup" \notin DOMAIN call.kw
        /\ call.tool \in DefaultNames =>
              \A i \in 1..Len(DefaultTool(call.tool).params) :
                 LET q == DefaultTool(call.tool).params[i] IN
                 q.name \notin DOMAIN call.kw =>
                    IF q.required
                    THEN /\ ~result.value.success
                         /\ MentionsText(result.value.error.v, "Tool execution failed: ")
                         /\ MentionsText(result.value.error.v, "Required parameter '")
                         /\ tool_result = Returned(PyNone)
                    ELSE call.validated.st = "returned"
                            => call.validated.value[q.name] = q.default

\* file_write was detected for a text without a create verb: no content was
\* extracted and the registry returned a failed result
C13_Witness ==
    /\ pc = "done"
    /\ call.tool = "file_write"
    /\ "path" \in DOMAIN call.kw
    /\ "content" \notin DOMAIN call.kw
    /\ result.st = "returned" /\ ~result.value.success

\* file_read ran with only the path extracted, its encoding and max_size
\* validated to their defaults
C13_WitnessDefaults ==
    /\ pc = "done"
    /\ call.tool = "file_read"
    /\ DOMAIN call.kw = {"path"}
    /\ call.validated.st = "returned"
    /\ call.validated.value["encoding"] = PyStr(s_utf8)

\* every text rule a matches is matched by rule b as well: each alternative
\* of a holds a literal in which an alternative of b, itself one literal,
\* occurs
Subsumes(b, a) ==
    \A x \in 1..Len(all_patterns[a].pattern) :
    \E y \in 1..Len(all_patterns[b].pattern) :
        LET alt == all_patterns[b].pattern[y] IN
        /\ Len(alt) = 1
        /\ alt[1].k = "lit"
        /\ \E j \in 1..Len(all_patterns[a].pattern[x]) :
              LET it == all_patterns[a].pattern[x][j] IN
              it.k = "lit" /\ Contains(it.s, alt[1].s)

\* C10: specific rules precede general ones: the rule selected for a text
\* never shadows a rule with another tool that matches the text and whose
\* texts it matches all; so a text matching 'execute.*python|run.*python'
\* selects python_exec.
C10_SpecificBeforeGeneral ==
    (pc # "detect" /\ selected # 0) =>
        \A a \in Matching :
            (Subsumes(selected, a) /\ all_patterns[a].tool # all_patterns[selected].tool)
                => a <= selected

(***************************************************************************)
(* SpecFiles: FileWriteTool.execute and FileReadTool.execute, one system   *)
(* call at a time, on one file system                                      *)
(***************************************************************************)
NoFile == [kind |-> "absent"]
Directory == [kind |-> "dir"]
RegularFile(c) == [kind |-> "file", content |-> c]

s_notes == <<"n","o","t","e","s",".","t","x","t">>
s_docs  == <<"d","o","c","s">>
s_old   == <<"o","l","d">>
s_new   == <<"n","e","w">>
s_stale == <<"s","t","a","l","e">>

\* the position of the dot that starts Path.suffix, 0 when there is none: the
\* last dot of the name, unless it leads the name or ends it
SuffixDot(path) ==
    LET dots == { i \in 1..Len(path) : path[i] = "." } IN
    IF dots = {} THEN 0
    ELSE LET i == CHOOSE d \in dots : \A e \in dots : e <= d IN
         IF i = 1 \/ i = Len(path) THEN 0 ELSE i

\* Path.suffix
Suffix(path) ==
    IF SuffixDot(path) = 0 THEN <<>> ELSE SubSeq(path, SuffixDot(path), Len(path))

\* Path.with_suffix(suffix)
with_suffix(path, suffix) ==
    (IF SuffixDot(path) = 0 THEN path ELSE SubSeq(path, 1, SuffixDot(path) - 1)) \o suffix

\* file_path.with_suffix(file_path.suffix + '.bak')
backup_path(path) == with_suffix(path, Suffix(path) \o <<".","b","a","k">>)

Paths == {s_notes, backup_path(s_notes), s_docs, backup_path(s_docs)}

\* shutil.copy2 that leaves the destination as it was
copy2_Nothing(fs, src, dst) == fs

\* shutil.copy2(src, dst)
copy2(fs, src, dst) == [fs EXCEPT ![dst] = fs[src]]

\* open(path, 'w'): the file is created or cut to length 0
open_w(fs, path) == [fs EXCEPT ![path] = RegularFile(<<>>)]

\* a size check that lets every file through
TooLarge_Never(file_size, max_size) == FALSE

\* file_size > max_size
TooLarge(file_size, max_size) == file_size > max_size

\* f.read()
read(content) == content

Prefixes(c) == { SubSeq(c, 1, n) : n \in 0..Len(c) }

WriteParams ==
    { validate_parameters(FileWriteTool.params, kw).value :
        kw \in { Kw2("path", PyStr(path), "content", PyStr(s_new))
                   @@ Kw2("backup", PyBool(b), "create_dirs", PyBool(c)) :
                 path \in {s_notes, s_docs}, b \in BOOLEAN, c \in BOOLEAN } }

ReadParams ==
    { validate_parameters(FileReadTool.params, kw).value :
        kw \in { Kw2("path", PyStr(path), "max_size", PyInt(m)) :
                 path \in {s_notes, backup_path(s_notes), s_docs}, m \in {2, 10} } }

\* the file system before the calls, the two tools called with validated
\* parameters
InitFiles ==
    /\ \E old \in {NoFile, RegularFile(s_old)} :
       \E bak \in {NoFile, RegularFile(s_stale)} :
          files = [x \in Paths |->
                      IF x = s_notes THEN old
                      ELSE IF x = s_docs THEN Directory
                      ELSE IF x = backup_path(s_notes) THEN bak ELSE NoFile]
    /\ \E p \in WriteParams :
          writer = [pc |-> "mkdir", p |-> p, pre |-> files, written |-> 0,
                    opened |-> FALSE, backup |-> "none",
                    e |-> [resolve |-> "ok", mkdir |-> "ok", exists |-> FALSE,
                           copy |-> "ok", io |-> "ok"],
                    result |-> Pending]
    /\ \E p \in ReadParams :
          reader = [pc |-> "exists", p |-> p, trace |-> <<>>, file_size |-> 0,
                    readOf |-> <<>>,
                    e |-> [resolve |-> "ok", exists |-> FALSE, is_file |-> FALSE,
                           size |-> 0, io |-> "ok", content |-> <<>>],
                    result |-> Pending]
    /\ ExtIdle /\ ShellIdle /\ ValIdle /\ RegIdle /\ ToolIdle /\ IntentIdle

WriterReturn(w) == [w EXCEPT !.pc = "returned", !.result = FileWriteExecute(w.p, w.e)]

\* if create_dirs: file_path.parent.mkdir(parents=True, exist_ok=True)
WriteMkdir ==
    /\ writer # Pending /\ writer.pc = "mkdir"
    /\ \E o \in IF writer.p.create_dirs.v THEN Outcome2 ELSE {"ok"} :
          LET w == [writer EXCEPT !.e.mkdir = o] IN
          writer' = IF o = "ok" THEN [w EXCEPT !.pc = "backup"] ELSE WriterReturn(w)
    /\ UNCHANGED <<files, reader>>
    /\ UNCHANGED <<extVars, shellVars, valVars, regVars, toolVars, intentVars>>

\* if backup and file_path.exists(): shutil.copy2(file_path, backup_path);
\* a copy that fails may have left a part of the content in the backup
WriteBackup ==
    /\ writer # Pending /\ writer.pc = "backup"
    /\ LET path == writer.p.path.v
           exists == files[path] # NoFile
       IN IF writer.p.backup.v /\ exists
          THEN \E o \in IF files[path].kind = "dir" THEN {"OSError"} ELSE Outcome2 :
                 LET w == [writer EXCEPT !.e.exists = TRUE, !.e.copy = o, !.backup = o] IN
                 IF o = "ok"
                 THEN /\ files' = copy2(files, path, backup_path(path))
                      /\ writer' = [w EXCEPT !.pc = "open"]
                 ELSE /\ \E left \in {files[backup_path(path)]} \cup
                                     (IF files[path].kind = "file"
                                      THEN { RegularFile(c) :
                                               c \in Prefixes(files[path].content)
                                                       \ {files[path].content} }
                                      ELSE {}) :
                            files' = [files EXCEPT ![backup_path(path)] = left]
                      /\ writer' = WriterReturn(w)
          ELSE /\ writer' = [writer EXCEPT !.e.exists = exists, !.pc = "open"]
               /\ UNCHANGED files
    /\ UNCHANGED reader
    /\ UNCHANGED <<extVars, shellVars, valVars, regVars, toolVars, intentVars>>

\* aiofiles.open(file_path, 'w', encoding=encoding)
WriteOpen ==
    /\ writer # Pending /\ writer.pc = "open"
    /\ LET path == writer.p.path.v IN
       \E o \in IF files[path].kind = "dir" THEN {"OSError"} ELSE Outcome2 :
          LET w == [writer EXCEPT !.e.io = o] IN
          IF o = "ok"
          THEN /\ files' = open_w(files, path)
               /\ writer' = [w EXCEPT !.pc = "write", !.opened = TRUE]
          ELSE /\ writer' = WriterReturn(w)
               /\ UNCHANGED files
    /\ UNCHANGED reader
    /\ UNCHANGED <<extVars, shellVars, valVars, regVars, toolVars, intentVars>>

\* await f.write(content) and the flushes up to the close of the file: the
\* content reaches the file a part at a time, and a part may fail
WriteData ==
    /\ writer # Pending /\ writer.pc = "write"
    /\ LET path == writer.p.path.v
           content == writer.p.content.v
       IN \/ \E n \in (writer.written + 1)..Len(content) :
                /\ files' = [files EXCEPT ![path] = RegularFile(SubSeq(content, 1, n))]
                /\ writer' = [writer EXCEPT !.written = n,
                                            !.pc = IF n = Len(content) THEN "stat" ELSE "write"]
          \/ /\ writer' = WriterReturn([writer EXCEPT !.e.io = "OSError"])
             /\ UNCHANGED files
    /\ UNCHANGED reader
    /\ UNCHANGED <<extVars, shellVars, valVars, regVars, toolVars, intentVars>>

\* stat = file_path.stat(); return ToolResult(success=True, ...)
WriteReturn ==
    /\ writer # Pending /\ writer.pc = "stat"
    /\ writer' = WriterReturn(writer)
    /\ UNCHANGED <<files, reader>>
    /\ UNCHANGED <<extVars, shellVars, valVars, regVars, toolVars, intentVars>>

ReaderReturn(r) == [r EXCEPT !.pc = "returned", !.result = FileReadExecute(r.p, r.e)]

\* if not file_path.exists()
ReadExists ==
    /\ reader # Pending /\ reader.pc = "exists"
    /\ LET ex == files[reader.p.path.v] # NoFile
           r == [reader EXCEPT !.trace = Append(@, "exists"), !.e.exists = ex]
       IN reader' = IF ex THEN [r EXCEPT !.pc = "is_file"] ELSE ReaderReturn(r)
    /\ UNCHANGED <<files, writer>>
    /\ UNCHANGED <<extVars, shellVars, valVars, regVars, toolVars, intentVars>>

\* if not file_path.is_file()
ReadIsFile ==
    /\ reader # Pending /\ reader.pc = "is_file"
    /\ LET isf == files[reader.p.path.v].kind = "file"
           r == [reader EXCEPT !.trace = Append(@, "is_file"), !.e.is_file = isf]
       IN reader' = IF isf THEN [r EXCEPT !.pc = "stat"] ELSE ReaderReturn(r)
    /\ UNCHANGED <<files, writer>>
    /\ UNCHANGED <<extVars, shellVars, valVars, regVars, toolVars, intentVars>>

\* file_size = file_path.stat().st_size; if file_size > max_size
ReadStat ==
    /\ reader # Pending /\ reader.pc = "stat"
    /\ LET size == Len(files[reader.p.path.v].content)
           r == [reader EXCEPT !.trace = Append(@, "stat"), !.file_size = size] IN
       reader' = IF TooLarge(size, reader.p.max_size.v)
                 THEN ReaderReturn([r EXCEPT !.e.size = size])
                 ELSE [r EXCEPT !.pc = "open"]
    /\ UNCHANGED <<files, writer>>
    /\ UNCHANGED <<extVars, shellVars, valVars, regVars, toolVars, intentVars>>

\* aiofiles.open(file_path, 'r', encoding=encoding)
ReadOpen ==
    /\ reader # Pending /\ reader.pc = "open"
    /\ \E o \in Outcome2 :
          LET r == [reader EXCEPT !.trace = Append(@, "open"), !.e.io = o] IN
          reader' = IF o = "ok" THEN [r EXCEPT !.pc = "read"] ELSE ReaderReturn(r)
    /\ UNCHANGED <<files, writer>>
    /\ UNCHANGED <<extVars, shellVars, valVars, regVars, toolVars, intentVars>>

\* content = await f.read(), then the metadata and the successful result
ReadContent ==
    /\ reader # Pending /\ reader.pc = "read"
    /\ \E o \in {"ok", "UnicodeDecodeError"} :
          LET on_disk == files[reader.p.path.v].content
              r == [reader EXCEPT !.trace = Append(@, "read"), !.e.io = o,
                                  !.readOf = on_disk,
                                  !.e.content = read(on_disk)]
          IN reader' = ReaderReturn(r)
    /\ UNCHANGED <<files, writer>>
    /\ UNCHANGED <<extVars, shellVars, valVars, regVars, toolVars, intentVars>>

NextFiles ==
    \/ WriteMkdir \/ WriteBackup \/ WriteOpen \/ WriteData \/ WriteReturn
    \/ ReadExists \/ ReadIsFile \/ ReadStat \/ ReadOpen \/ ReadContent

SpecFiles == InitFiles /\ [][NextFiles]_vars

\* C16: file_write overwrites atomically: a read of the file that succeeds
\* while a write replaces its content gives the whole old content or the
\* whole new content, and after a write that failed the file has its old
\* content.
C16_AtomicOverwrite ==
    LET path == writer.p.path.v IN
    writer.pre[path].kind = "file" =>
        /\ (reader.p.path.v = path /\ reader.result # Pending /\ reader.result.value.success)
              => reader.result.value.data.v \in {writer.pre[path].content, writer.p.content.v}
        /\ (writer.result # Pending /\ ~writer.result.value.success)
              => files[path] = writer.pre[path]

\* C17: with backup=true on an existing file, '<path>.bak' holds the content
\* the file had before the write from the moment the file is opened for
\* writing on, and a backup that failed leaves the file as it was.
C17_BackupBeforeWrite ==
    LET path == writer.p.path.v IN
    (writer.p.backup.v /\ writer.pre[path] # NoFile) =>
        /\ writer.opened =>
              /\ writer.backup = "ok"
              /\ files[path \o <<".","b","a","k">>] = writer.pre[path]
        /\ files[path] # writer.pre[path] => writer.opened
        /\ writer.backup = "OSError" =>
              /\ files[path] = writer.pre[path]
              /\ writer.pc = "returned" /\ ~writer.result.value.success

\* a write with backup has replaced the old content, the backup holding it
C17_Witness ==
    /\ writer.p.backup.v
    /\ writer.pre[s_notes] = RegularFile(s_old)
    /\ writer.pre[backup_path(s_notes)] = RegularFile(s_stale)
    /\ writer.pc = "returned" /\ writer.result.value.success
    /\ files[s_notes] = RegularFile(s_new)
    /\ files[backup_path(s_notes)] = RegularFile(s_old)

\* a write whose backup failed has returned
C17_WitnessBackupFailed ==
    /\ writer.backup = "OSError"
    /\ writer.pre[s_notes] = RegularFile(s_old)
    /\ writer.pc = "returned"

\* C18: file_read checks existence, then is-file, then the size against
\* max_size, and only then opens the file: a file larger than max_size gives
\* a failed result without the file being opened or read, and a successful
\* result carries all of the content that was read, never a part of it.
C18_SizeCheckedBeforeRead ==
    /\ \E n \in 0..5 :
          reader.trace = SubSeq(<<"exists", "is_file", "stat", "open", "read">>, 1, n)
    /\ reader.file_size > reader.p.max_size.v =>
          /\ reader.trace = <<"exists", "is_file", "stat">>
          /\ reader.pc = "returned"
          /\ ~reader.result.value.success
          /\ reader.result.value.data = PyNone
    /\ (reader.result # Pending /\ reader.result.value.success) =>
          /\ reader.result.value.data = PyStr(reader.readOf)
          /\ reader.file_size <= reader.p.max_size.v

\* a file larger than max_size has been refused
C18_Witness ==
    /\ reader.pc = "returned"
    /\ reader.file_size > reader.p.max_size.v
    /\ ~reader.result.value.success

\* a file has been read that had grown beyond max_size after the check
C18_WitnessWhole ==
    /\ reader.result # Pending /\ reader.result.value.success
    /\ Len(reader.readOf) > reader.p.max_size.v

(***************************************************************************)
(* SpecShell: ShellCommandTool.execute, one await at a time, and the       *)
(* processes of the command                                                *)
(***************************************************************************)
\* process.kill(): SIGKILL to the pid of the subprocess
kill(running) == running \ {"sh"}

ShellParams ==
    { validate_parameters(ShellCommandTool.params, kw).value :
        kw \in CallKwargs("shell_exec") }

InitShell ==
    /\ procs = {}
    /\ \E p \in ShellParams :
          shell = [pc |-> "cwd", p |-> p, started |-> {}, exit_code |-> PyNone,
                   e |-> [cwd_is_dir |-> TRUE, spawn |-> "ok", timed_out |-> FALSE,
                          returncode |-> 0, out |-> <<>>, err |-> <<>>],
                   result |-> Pending]
    /\ ExtIdle /\ FileIdle /\ ValIdle /\ RegIdle /\ ToolIdle /\ IntentIdle

ShellReturn(sh) == [sh EXCEPT !.pc = "returned", !.result = ShellExecute(sh.p, sh.e)]

\* if cwd: ... if not work_dir.exists() or not work_dir.is_dir()
ShellCwd ==
    /\ shell # Pending /\ shell.pc = "cwd"
    /\ \E isdir \in BOOLEAN :
          LET sh == [shell EXCEPT !.e.cwd_is_dir = isdir] IN
          shell' = IF shell.p.cwd # PyNone /\ Truthy(shell.p.cwd) /\ ~isdir
                   THEN ShellReturn(sh)
                   ELSE [sh EXCEPT !.pc = "spawn"]
    /\ UNCHANGED procs
    /\ UNCHANGED <<extVars, fileVars, valVars, regVars, toolVars, intentVars>>

\* process = await asyncio.create_subprocess_shell(command, **kwargs)
ShellSpawn ==
    /\ shell # Pending /\ shell.pc = "spawn"
    /\ \E o \in Outcome2 :
          LET sh == [shell EXCEPT !.e.spawn = o] IN
          IF o = "ok"
          THEN /\ procs' = {"sh"}
               /\ shell' = [sh EXCEPT !.pc = "communicate", !.started = {"sh"}]
          ELSE /\ shell' = ShellReturn(sh)
               /\ UNCHANGED procs
    /\ UNCHANGED <<extVars, fileVars, valVars, regVars, toolVars, intentVars>>

\* the command starts a process of its own
Fork ==
    /\ "sh" \in procs
    /\ "child" \notin shell.started
    /\ procs' = procs \cup {"child"}
    /\ shell' = [shell EXCEPT !.started = @ \cup {"child"}]
    /\ UNCHANGED <<extVars, fileVars, valVars, regVars, toolVars, intentVars>>

\* the shell exits with its exit code, having written its output
ShExit ==
    /\ "sh" \in procs
    /\ \E code \in 0..MaxReturnCode : \E out \in {<<>>, <<"o">>, <<"\\xff">>} : \E err \in {<<>>, <<"e">>} :
          shell' = [shell EXCEPT !.exit_code = PyInt(code), !.e.returncode = code,
                                 !.e.out = out, !.e.err = err]
    /\ procs' = procs \ {"sh"}
    /\ UNCHANGED <<extVars, fileVars, valVars, regVars, toolVars, intentVars>>

\* the process the command started exits
ChildExit ==
    /\ "child" \in procs
    /\ procs' = procs \ {"child"}
    /\ UNCHANGED shell
    /\ UNCHANGED <<extVars, fileVars, valVars, regVars, toolVars, intentVars>>

\* stdout, stderr = await asyncio.wait_for(process.communicate(), timeout)
\* returns: the shell has exited and, with capture_output, every process
\* that holds the pipes has closed them; then the result is built
ShellCommunicated ==
    /\ shell # Pending /\ shell.pc = "communicate"
    /\ "sh" \notin procs
    /\ shell.p.capture_output.v => procs = {}
    /\ shell' = ShellReturn(shell)
    /\ UNCHANGED procs
    /\ UNCHANGED <<extVars, fileVars, valVars, regVars, toolVars, intentVars>>

\* except asyncio.TimeoutError: process.kill()
ShellTimeout ==
    /\ shell # Pending /\ shell.pc = "communicate"
    /\ procs' = kill(procs)
    /\ shell' = [shell EXCEPT !.pc = "wait", !.e.timed_out = TRUE]
    /\ UNCHANGED <<extVars, fileVars, valVars, regVars, toolVars, intentVars>>

\* await process.wait(); return ToolResult(success=False, error=...)
ShellWaited ==
    /\ shell # Pending /\ shell.pc = "wait"
    /\ "sh" \notin procs
    /\ shell' = ShellReturn(shell)
    /\ UNCHANGED procs
    /\ UNCHANGED <<extVars, fileVars, valVars, regVars, toolVars, intentVars>>

NextShell ==
    \/ ShellCwd \/ ShellSpawn \/ Fork \/ ShExit \/ ChildExit
    \/ ShellCommunicated \/ ShellTimeout \/ ShellWaited

SpecShell == InitShell /\ [][NextShell]_vars

\* C19: shell_exec succeeds exactly when the exit code is 0, and a timeout
\* is a failure of its own kind: the result of a command that ran to its end
\* has success = (exit code = 0) and carries the exit code; the result of a
\* command that timed out is a failure with the timeout error and no data,
\* hence no exit code.
C19_SuccessIffExitZero ==
    (shell.pc = "returned" /\ shell.started # {}) =>
        LET r == shell.result.value IN
        IF shell.e.timed_out
        THEN /\ ~r.success
             /\ r.data = PyNone
             /\ r.error = FStr(<<Lit("Command timed out after "), Val(shell.p.timeout),
                                 Lit(" seconds")>>)
        ELSE /\ shell.exit_code # PyNone
             /\ r.success <=> shell.exit_code.v = 0
             /\ r.data # PyNone
             /\ r.data.returncode = shell.exit_code.v

\* C20: after a timeout no process of the command is left: when the tool
\* has returned the timeout failure, neither the shell nor a process it
\* started is running.
C20_NoProcessLeft ==
    (shell.pc = "returned" /\ shell.e.timed_out) => procs = {}

(***************************************************************************)
(* SpecCwd: the built-in tools called one after the other in one process,  *)
(* and the process working directory                                       *)
(***************************************************************************)
\* the longest working directory, in characters
MaxPathLen == 8

\* Path(path).expanduser().resolve(): a relative path is taken from the
\* working directory
resolve(dir, path) == PathJoin(dir, path)

\* executed code that changes nothing outside its own namespace
Semantics_NoChdir(code) == [Semantics(code) EXCEPT !.chdir = <<>>]

\* os.chdir as reached by tool.execute(**p) of the tool named n, in the
\* environment e: by DirectoryTool.execute after its checks of the path,
\* and by the code PythonExecuteTool.execute hands to exec
chdir(n, p, e, dir) ==
    CASE /\ n = "directory"
         /\ p.operation.v = <<"c","h","a","n","g","e">>
         /\ p.path # PyNone /\ Truthy(p.path)
         /\ e.resolve = "ok" /\ e.exists /\ e.is_dir /\ e.io = "ok"
            -> resolve(dir, p.path.v)
      [] /\ n = "python_exec"
         /\ ~_has_dangerous_operations(p.code.v)
         /\ ~e.interrupt
         /\ Semantics(p.code.v).chdir # <<>>
            -> Semantics(p.code.v).chdir
      [] OTHER -> dir

CwdIdleOthers ==
    /\ PyIdle /\ ConfigIdle /\ ToolCmdIdle /\ HistoryIdle /\ ClientIdle
    /\ FileIdle /\ ShellIdle /\ ValIdle /\ RegIdle /\ IntentIdle

InitCwd ==
    /\ cwd = s_root
    /\ call = [tool |-> "none"]
    /\ result = Pending
    /\ CwdIdleOthers

\* await tool.execute(**validated_params), os.getcwd() being the working
\* directory of the process
ExecuteInProcess ==
    \E c \in ToolCalls :
        \E e \in { IF c.tool = "directory" THEN [c.e EXCEPT !.getcwd = cwd] ELSE c.e } :
            \E d \in { chdir(c.tool, c.p, e, cwd) } :
                /\ Len(d) <= MaxPathLen
                /\ call' = [c EXCEPT !.e = e]
                /\ result' = BuiltinExecute(c.tool, c.p, e)
                /\ cwd' = d
                /\ UNCHANGED <<python, config, tool_cmd, history, client>>
                /\ UNCHANGED <<osVars, valVars, regVars, intentVars>>

NextCwd == ExecuteInProcess

SpecCwd == InitCwd /\ [][NextCwd]_vars

\* C21: the process working directory changes only in a call of the
\* directory tool with operation 'change' on a path that exists and is a
\* directory; every other call leaves it as it was
C21_OnlyChangeMovesCwd ==
    [][cwd' # cwd =>
          /\ call'.tool = "directory"
          /\ call'.p.operation.v = <<"c","h","a","n","g","e">>
          /\ call'.e.exists /\ call'.e.is_dir]_vars

(***************************************************************************)
(* SpecPython: PythonExecuteTool.execute step by step, with the time the   *)
(* executed code takes and what it does to the process                     *)
(***************************************************************************)
\* the longest time the clock is followed, in seconds
MaxSecs == 3

s_home == resolve(s_root, s_dir)

\* the calls: the code, with the default timeout (10.0 s) or timeout=1,
\* capturing output or not
PythonKwargs ==
    { k1 @@ k2 @@ k3 :
        k1 \in { Kw1("code", PyStr(c)) :
                    c \in {c_assign, c_div, c_open, c_escape, c_chdir, c_loop} },
        k2 \in { Kw0, Kw1("timeout", PyInt(1)) },
        k3 \in { Kw0, Kw1("capture_output", PyBool(FALSE)) } }

InitPython ==
    /\ \E kw \in PythonKwargs :
          python = [pc |-> "enter",
                    p |-> validate_parameters(PythonExecuteTool.params, kw).value,
                    stdout |-> "terminal", captured |-> <<>>, terminal |-> <<>>,
                    compiled |-> FALSE, executed |-> FALSE, elapsed |-> 0,
                    spin |-> FALSE, result |-> Pending]
    /\ cwd = s_home
    /\ ConfigIdle /\ ToolCmdIdle /\ HistoryIdle /\ ClientIdle
    /\ FileIdle /\ ShellIdle /\ ValIdle /\ RegIdle /\ ToolIdle /\ IntentIdle

\* exec_globals, then sys.stdout = captured_stdout when capture_output
PyEnter ==
    /\ python.pc = "enter"
    /\ python' = [python EXCEPT !.pc = "scan",
                     !.stdout = IF python.p.capture_output.v THEN "captured"
                                ELSE "terminal"]
    /\ UNCHANGED cwd
    /\ UNCHANGED <<config, tool_cmd, history, client>>
    /\ UNCHANGED <<osVars, valVars, regVars, toolVars, intentVars>>

\* if self._has_dangerous_operations(code): return ToolResult(...)
PyScan ==
    /\ python.pc = "scan"
    /\ python' = IF _has_dangerous_operations(python.p.code.v)
                 THEN [python EXCEPT !.pc = "finally",
                          !.result = PythonExecute(python.p, [interrupt |-> FALSE])]
                 ELSE [python EXCEPT !.pc = "compile"]
    /\ UNCHANGED cwd
    /\ UNCHANGED <<config, tool_cmd, history, client>>
    /\ UNCHANGED <<osVars, valVars, regVars, toolVars, intentVars>>

\* compiled = compile(code, '<string>', 'exec')
PyCompile ==
    /\ python.pc = "compile"
    /\ python' = [python EXCEPT !.pc = "exec", !.compiled = TRUE]
    /\ UNCHANGED cwd
    /\ UNCHANGED <<config, tool_cmd, history, client>>
    /\ UNCHANGED <<osVars, valVars, regVars, toolVars, intentVars>>

\* a second passes while exec(compiled, ...) runs; nothing looks at the
\* clock or at the timeout parameter
PyTick ==
    /\ python.pc = "exec"
    /\ python.elapsed < MaxSecs
    /\ python' = [python EXCEPT !.elapsed = @ + 1]
    /\ UNCHANGED cwd
    /\ UNCHANGED <<config, tool_cmd, history, client>>
    /\ UNCHANGED <<osVars, valVars, regVars, toolVars, intentVars>>

\* code that does not end goes through its loop once more
PyLoop ==
    /\ python.pc = "exec"
    /\ Semantics(python.p.code.v).run = "forever"
    /\ python' = [python EXCEPT !.spin = ~@]
    /\ UNCHANGED cwd
    /\ UNCHANGED <<config, tool_cmd, history, client>>
    /\ UNCHANGED <<osVars, valVars, regVars, toolVars, intentVars>>

\* exec(compiled, exec_globals, exec_locals) comes back, by the end of the
\* code or by an Exception; print has written to what sys.stdout is
PyExec ==
    /\ python.pc = "exec"
    /\ \E sem \in { Semantics(python.p.code.v) } :
          /\ sem.run # "forever"
          /\ python' = [python EXCEPT
                 !.pc = "finally", !.executed = TRUE,
                 !.captured = IF python.stdout = "captured" THEN @ \o sem.out ELSE @,
                 !.terminal = IF python.stdout = "terminal" THEN @ \o sem.out ELSE @,
                 !.result = PythonExecute(python.p, [interrupt |-> FALSE])]
          /\ cwd' = IF sem.chdir # <<>> THEN sem.chdir ELSE cwd
    /\ UNCHANGED <<config, tool_cmd, history, client>>
    /\ UNCHANGED <<osVars, valVars, regVars, toolVars, intentVars>>

\* finally: sys.stdout = old_stdout
PyFinally ==
    /\ python.pc = "finally"
    /\ python' = [python EXCEPT !.pc = "return", !.stdout = "terminal"]
    /\ UNCHANGED cwd
    /\ UNCHANGED <<config, tool_cmd, history, client>>
    /\ UNCHANGED <<osVars, valVars, regVars, toolVars, intentVars>>

\* return ToolResult(...)
PyReturn ==
    /\ python.pc = "return"
    /\ python' = [python EXCEPT !.pc = "returned"]
    /\ UNCHANGED cwd
    /\ UNCHANGED <<config, tool_cmd, history, client>>
    /\ UNCHANGED <<osVars, valVars, regVars, toolVars, intentVars>>

NextPython ==
    PyEnter \/ PyScan \/ PyCompile \/ PyTick \/ PyLoop \/ PyExec \/ PyFinally
    \/ PyReturn

SpecPython == InitPython /\ [][NextPython]_vars

\* the interpreter keeps running the coroutine: execute holds no await, so
\* each of its steps is taken once it can be
SpecPythonLive == SpecPython /\ WF_vars(NextPython)

\* C22: code whose text contains a deny-listed token is never compiled and
\* never executed, nothing it would do has happened (nothing written to the
\* terminal or to the captured output, the working directory as it was), and
\* the result returned is a failure whose error mentions dangerous
\* operations
C22_ScanBeforeExecution ==
    ContainsAny(python.p.code.v, dangerous_keywords) =>
        /\ ~python.compiled /\ ~python.executed
        /\ python.terminal = <<>> /\ python.captured = <<>>
        /\ cwd = s_home
        /\ python.pc = "returned" =>
              /\ python.result.st = "returned"
              /\ ~python.result.value.success
              /\ python.result.value.error =
                    FStr(<<Lit("Code contains potentially dangerous operations")>>)

\* a call with deny-listed code that would write to the terminal has returned
C22_Witness ==
    /\ python.pc = "returned"
    /\ python.p.code.v = c_open
    /\ ~python.p.capture_output.v

\* a call with deny-listed code that would change the working directory has
\* returned
C22_WitnessChdir ==
    /\ python.pc = "returned"
    /\ python.p.code.v = c_chdir

\* the timeout parameter of the call, in thousandths of a second
TimeoutMillis == python.p.timeout.v

\* C25: every call of python_exec comes to return a result, and a call whose
\* code ran for longer than its timeout returns a failure
C25_TimeoutEnforced ==
    <>(/\ python.pc = "returned"
       /\ python.elapsed * 1000 > TimeoutMillis => ~python.result.value.success)

(***************************************************************************)
(* SpecConfig: ConfigManager.load_config over a global file, a project     *)
(* file and the environment.  Three settings are followed: api.timeout,    *)
(* cli.theme and api_key.  A YAML file is the mapping safe_load gives, or  *)
(* Missing when the file does not exist.                                   *)
(***************************************************************************)
\* APIConfig.timeout
DefaultTimeout == 30

\* CLIConfig.theme
s_default_theme == <<"d","e","f","a","u","l","t">>
s_dark          == <<"d","a","r","k">>
s_light         == <<"l","i","g","h","t">>
s_mono          == <<"m","o","n","o">>
s_key_global    == <<"k","g">>
s_key_project   == <<"k","p">>
s_key_env       == <<"k","e">>

Missing == [missing |-> TRUE]

\* APIConfig(**kw), CLIConfig(**kw)
APIConfig(kw) ==
    [timeout |-> IF "timeout" \in DOMAIN kw THEN kw.timeout ELSE DefaultTimeout]
CLIConfig(kw) ==
    [theme |-> IF "theme" \in DOMAIN kw THEN kw.theme ELSE s_default_theme]

\* os.getenv(k)
getenv(env, k) == IF k \in DOMAIN env THEN PyStr(env[k]) ELSE PyNone

\* `if v := os.getenv(k)`: set, and not the empty string
EnvSet(env, k) == k \in DOMAIN env /\ Len(env[k]) > 0

\* self.api.timeout = int(env_timeout), ValueError passed over
EnvTimeout(c, env) ==
    IF EnvSet(env, "CEREBRAS_TIMEOUT") /\ StrIsDigit(env["CEREBRAS_TIMEOUT"])
    THEN [c EXCEPT !.api.timeout = DigitsToNat(env["CEREBRAS_TIMEOUT"])]
    ELSE c

\* Config._load_from_environment
_load_from_environment(c, env) ==
    EnvTimeout(IF EnvSet(env, "CEREBRAS_API_KEY")
               THEN [c EXCEPT !.api_key = getenv(env, "CEREBRAS_API_KEY")]
               ELSE c, env)

\* Config(): the defaults, then __post_init__
Config(env) ==
    _load_from_environment(
        [api |-> APIConfig(EmptyMap), cli |-> CLIConfig(EmptyMap), api_key |-> PyNone], env)

\* Config.update_from_env
update_from_env(c, env) ==
    LET c1 == _load_from_environment(c, env) IN
    IF EnvSet(env, "CEREBRAS_THEME")
    THEN [c1 EXCEPT !.cli.theme = env["CEREBRAS_THEME"]]
    ELSE c1

\* Config.load_from_file
load_from_file(data, env) ==
    IF data = Missing THEN Config(env)
    ELSE [api     |-> IF "api" \in DOMAIN data THEN APIConfig(data.api)
                      ELSE Config(env).api,
          cli     |-> IF "cli" \in DOMAIN data THEN CLIConfig(data.cli)
                      ELSE Config(env).cli,
          api_key |-> IF "api_key" \in DOMAIN data THEN PyStr(data.api_key)
                      ELSE Config(env).api_key]

\* ConfigManager._merge_configs
_merge_configs(base, override) ==
    [api |-> [timeout |-> IF override.api.timeout # APIConfig(EmptyMap).timeout
                          THEN override.api.timeout ELSE base.api.timeout],
     cli |-> [theme |-> IF override.cli.theme # CLIConfig(EmptyMap).theme
                        THEN override.cli.theme ELSE base.cli.theme],
     api_key |-> IF override.api_key # PyNone /\ Truthy(override.api_key)
                 THEN override.api_key ELSE base.api_key]

\* ConfigManager.load_config
load_config(global, project, env) ==
    update_from_env(
        IF project # Missing
        THEN _merge_configs(load_from_file(global, env), load_from_file(project, env))
        ELSE load_from_file(global, env), env)

\* the YAML files: each section present or not, each key given or not
YamlFiles(timeouts, themes, keys) ==
    { a @@ c @@ k :
        a \in {Kw0} \cup {Kw1("api", Kw0)} \cup { Kw1("api", Kw1("timeout", t)) : t \in timeouts },
        c \in {Kw0} \cup { Kw1("cli", Kw1("theme", t)) : t \in themes },
        k \in {Kw0} \cup { Kw1("api_key", x) : x \in keys } }

GlobalFiles  == {Missing} \cup YamlFiles({DefaultTimeout, 60}, {s_default_theme, s_dark}, {s_key_global})
ProjectFiles == {Missing} \cup YamlFiles({DefaultTimeout, 45}, {s_default_theme, s_light}, {s_key_project})

Environments ==
    { t @@ h @@ k :
        t \in {Kw0, Kw1("CEREBRAS_TIMEOUT", <<"9","0">>), Kw1("CEREBRAS_TIMEOUT", <<"a","b","c">>)},
        h \in {Kw0, Kw1("CEREBRAS_THEME", s_mono)},
        k \in {Kw0, Kw1("CEREBRAS_API_KEY", s_key_env)} }

InitConfig ==
    /\ \E g \in GlobalFiles, p \in ProjectFiles, env \in Environments :
          config = [global |-> g, project |-> p, env |-> env, loaded |-> Pending]
    /\ CwdIdle /\ PyIdle /\ ToolCmdIdle /\ HistoryIdle /\ ClientIdle
    /\ FileIdle /\ ShellIdle /\ ValIdle /\ RegIdle /\ ToolIdle /\ IntentIdle

\* config = ConfigManager().load_config()
LoadConfig ==
    /\ config.loaded = Pending
    /\ config' = [config EXCEPT
                     !.loaded = Returned(load_config(config.global, config.project, config.env))]
    /\ UNCHANGED <<cwd, python, tool_cmd, history, client>>
    /\ UNCHANGED <<osVars, valVars, regVars, toolVars, intentVars>>

NextConfig == LoadConfig

SpecConfig == InitConfig /\ [][NextConfig]_vars

\* the value a file gives for a setting, if it gives one
Gives(data, section, key) ==
    data # Missing /\ section \in DOMAIN data /\ key \in DOMAIN data[section]

\* C23: the loaded api.timeout and cli.theme are the environment's value when
\* the environment gives a usable one, else the project file's value when it
\* gives one (also when that value is the built-in default), else the global
\* file's value when it gives one, else the default
C23_Precedence ==
    config.loaded # Pending =>
        LET c == config.loaded.value
            g == config.global
            p == config.project
            env == config.env
        IN
        /\ c.api.timeout =
              IF EnvSet(env, "CEREBRAS_TIMEOUT") /\ StrIsDigit(env["CEREBRAS_TIMEOUT"])
              THEN DigitsToNat(env["CEREBRAS_TIMEOUT"])
              ELSE IF Gives(p, "api", "timeout") THEN p.api.timeout
              ELSE IF Gives(g, "api", "timeout") THEN g.api.timeout
              ELSE DefaultTimeout
        /\ c.cli.theme =
              IF EnvSet(env, "CEREBRAS_THEME") THEN env["CEREBRAS_THEME"]
              ELSE IF Gives(p, "cli", "theme") THEN p.cli.theme
              ELSE IF Gives(g, "cli", "theme") THEN g.cli.theme
              ELSE s_default_theme

\* the same precedence over the cases in which the project file gives no
\* value equal to the built-in default
C23_PrecedenceOffDefault ==
    (/\ config.loaded # Pending
     /\ Gives(config.project, "api", "timeout") => config.project.api.timeout # DefaultTimeout
     /\ Gives(config.project, "cli", "theme") => config.project.cli.theme # s_default_theme)
    => C23_Precedence

(***************************************************************************)
(* SpecToolCmd: the REPL's '/tool <name> <args>' command,                  *)
(* REPL.execute_tool: key=value parsing, then one call of the registry     *)
(***************************************************************************)
\* the character SUPERSCRIPT TWO: str.isdigit() holds for it, int() does
\* not accept it
SuperTwo == "\\u00b2"

\* str.isdigit(): decimal digits and the other characters of Unicode's
\* digit class
isdigit(s) ==
    Len(s) > 0 /\ \A i \in 1..Len(s) : IsDigit(s[i]) \/ s[i] = SuperTwo

\* position of the first "=" of arg, 0 when there is none
EqPos(arg) ==
    IF \E i \in 1..Len(arg) : arg[i] = "="
    THEN CHOOSE i \in 1..Len(arg) : arg[i] = "=" /\ \A j \in 1..(i - 1) : arg[j] # "="
    ELSE 0

\* key, value = arg.split('=', 1)
SplitKey(arg)   == SubSeq(arg, 1, EqPos(arg) - 1)
SplitValue(arg) == SubSeq(arg, EqPos(arg) + 1, Len(arg))

s_true  == <<"t","r","u","e">>
s_false == <<"f","a","l","s","e">>
s_name  == <<"n","a","m","e">>
s_self  == <<"s","e","l","f">>
s_input == <<"i","n","p","u","t">>
s_text_key == <<"t","e","x","t">>

\* the value stored for `key=value`, or the exception int(value) raises
CoerceArg(val) ==
    CASE Lower(val) \in {s_true, s_false} -> Returned(PyBool(Lower(val) = s_true))
      [] isdigit(val) ->
            IF StrIsDigit(val) THEN Returned(PyInt(DigitsToNat(val)))
            ELSE Raised("ValueError")
      [] FloatSyntax(val) -> Returned(PyFloat(ParseFloat(val)))
      [] OTHER -> Returned(PyStr(val))

\* the loop over args: kwargs after args[i..], started from kw; an exception
\* leaves the loop
RECURSIVE ParseArgs(_, _, _)
ParseArgs(args, i, kw) ==
    IF i > Len(args) THEN Returned(kw)
    ELSE IF EqPos(args[i]) > 0
         THEN LET c == CoerceArg(SplitValue(args[i])) IN
              IF c.st = "raised" THEN c
              ELSE ParseArgs(args, i + 1,
                             [k \in DOMAIN kw \cup {SplitKey(args[i])} |->
                                 IF k = SplitKey(args[i]) THEN c.value ELSE kw[k]])
         ELSE IF s_input \notin DOMAIN kw /\ s_text_key \notin DOMAIN kw
              THEN ParseArgs(args, i + 1,
                             [k \in DOMAIN kw \cup {s_input} |->
                                 IF k = s_input THEN PyStr(args[i]) ELSE kw[k]])
              ELSE ParseArgs(args, i + 1, kw)

\* the arguments typed after '/tool test_tool'
MaxArgs == 2

ArgTexts ==
    { <<"a","=","T","r","u","e">>,
      <<"a","=","f","a","l","s","e">>,
      <<"n","=","1","2">>,
      <<"n","=","1",".","5">>,
      <<"n","=","a","b","c">>,
      <<"n","=","\\u00b2">>,
      <<"n","a","m","e","=","x">>,
      <<"x">>,
      <<"n","=","1","=","2">> }

ArgLists == UNION { [1..n -> ArgTexts] : n \in 0..MaxArgs }

InitToolCmd ==
    /\ \E args \in ArgLists :
          tool_cmd = [pc |-> "start", tool_name |-> "test_tool", args |-> args,
                      dispatched |-> <<>>, printed |-> "nothing"]
    /\ CwdIdle /\ PyIdle /\ ConfigIdle /\ HistoryIdle /\ ClientIdle
    /\ FileIdle /\ ShellIdle /\ ValIdle /\ RegIdle /\ ToolIdle /\ IntentIdle

\* REPL.execute_tool(tool_name, args): the kwargs are parsed and
\* self.tools_registry.execute_tool(tool_name, **kwargs) is called; a key
\* 'name' or 'self' collides with execute_tool's own parameters, and the
\* TypeError of that, like every other exception, is printed
ExecuteToolCmd ==
    /\ tool_cmd.pc = "start"
    /\ \E kw \in { ParseArgs(tool_cmd.args, 1, EmptyMap) } :
          tool_cmd' =
              IF kw.st = "raised"
              THEN [tool_cmd EXCEPT !.pc = "done", !.printed = "Error executing tool"]
              ELSE IF s_name \in DOMAIN kw.value \/ s_self \in DOMAIN kw.value
              THEN [tool_cmd EXCEPT !.pc = "done", !.printed = "Error executing tool"]
              ELSE [tool_cmd EXCEPT !.pc = "done", !.printed = "result",
                       !.dispatched = <<[name |-> tool_cmd.tool_name, kwargs |-> kw.value]>>]
    /\ UNCHANGED <<cwd, python, config, history, client>>
    /\ UNCHANGED <<osVars, valVars, regVars, toolVars, intentVars>>

NextToolCmd == ExecuteToolCmd

SpecToolCmd == InitToolCmd /\ [][NextToolCmd]_vars

\* the key=value arguments that give a key its value: no later argument has
\* the same key
LastOfKey(args, i) ==
    /\ EqPos(args[i]) > 0
    /\ \A j \in (i + 1)..Len(args) :
          EqPos(args[j]) > 0 => SplitKey(args[j]) # SplitKey(args[i])

\* the coercion rule: "true"/"false" in any case, all digits, float, string
RuleValue(val) ==
    IF Lower(val) \in {s_true, s_false} THEN PyBool(Lower(val) = s_true)
    ELSE IF StrIsDigit(val) THEN PyInt(DigitsToNat(val))
    ELSE IF FloatSyntax(val) THEN PyFloat(ParseFloat(val))
    ELSE PyStr(val)

\* C24: when the '/tool' command is done the registry has been called
\* exactly once, and for every key=value argument the call carries the key
\* with the value coerced by the rule: boolean for "true"/"false" in any
\* case, integer for all digits, else float when it parses as one, else the
\* string
C24_CoercedDispatch ==
    tool_cmd # Pending /\ tool_cmd.pc = "done" =>
        /\ Len(tool_cmd.dispatched) = 1
        /\ \A i \in 1..Len(tool_cmd.args) :
              LastOfKey(tool_cmd.args, i) =>
                  /\ SplitKey(tool_cmd.args[i]) \in DOMAIN tool_cmd.dispatched[1].kwargs
                  /\ tool_cmd.dispatched[1].kwargs[SplitKey(tool_cmd.args[i])]
                        = RuleValue(SplitValue(tool_cmd.args[i]))

\* the same over the commands with no value of non-decimal digits and no key
\* named like a parameter of ToolRegistry.execute_tool
C24_CoercedDispatchPlain ==
    (/\ tool_cmd # Pending
     /\ \A i \in 1..Len(tool_cmd.args) :
           /\ \A j \in 1..Len(tool_cmd.args[i]) : tool_cmd.args[i][j] # SuperTwo
           /\ SplitKey(tool_cmd.args[i]) \notin {s_name, s_self})
    => C24_CoercedDispatch

\* C26: the tool a matched rule names is registered in the default registry:
\* the registry call made for a detected intent never ends in the failure
\* "Tool '...' not found"
C26_RuleTargetsRegistered ==
    pc = "done" /\ selected # 0 =>
        /\ call.tool \in DefaultNames
        /\ ~(/\ result.st = "returned"
             /\ ~result.value.success
             /\ result.value.error # PyNone
             /\ MentionsText(result.value.error.v, "' not found"))

\* C27: get_help() with no name returns, whatever register and unregister
\* calls came before it, and every tool it lists is registered
C27_GetHelpNeverRaises ==
    last.op = "get_help" =>
        /\ last.ret.st = "returned"
        /\ \A x \in last.ret.value : x[2] \in DOMAIN _tools

(***************************************************************************)
(* SpecHistory: a ConversationHistory under add_message and clear          *)
(***************************************************************************)
\* the largest max_history a history is built with
MaxHistory == 3

\* the most add_message calls followed after the construction or a clear
MaxAdds == 4

HistoryContents == { <<Val(PyStr(<<"a">>))>>, <<Val(PyStr(<<"b">>))>> }

\* ConversationHistory(max_history); `added` keeps the messages handed to
\* add_message since the construction or the last clear
InitHistory ==
    /\ \E n \in 1..MaxHistory :
          history = [max_history |-> n, messages |-> <<>>, added |-> <<>>]
    /\ CwdIdle /\ PyIdle /\ ConfigIdle /\ ToolCmdIdle /\ ClientIdle
    /\ FileIdle /\ ShellIdle /\ ValIdle /\ RegIdle /\ ToolIdle /\ IntentIdle

\* history.add_message(role, content)
AddMessage ==
    /\ Len(history.added) < MaxAdds
    /\ \E role \in {"user", "assistant"}, content \in HistoryContents :
          history' = [history EXCEPT
              !.messages = add_message(history.messages, history.max_history, role, content),
              !.added = Append(@, Message(role, content))]
    /\ UNCHANGED <<cwd, python, config, tool_cmd, client>>
    /\ UNCHANGED <<osVars, valVars, regVars, toolVars, intentVars>>

\* history.clear()
ClearHistory ==
    /\ history' = [history EXCEPT !.messages = <<>>, !.added = <<>>]
    /\ UNCHANGED <<cwd, python, config, tool_cmd, client>>
    /\ UNCHANGED <<osVars, valVars, regVars, toolVars, intentVars>>

NextHistory == AddMessage \/ ClearHistory

SpecHistory == InitHistory /\ [][NextHistory]_vars

\* C28: the number of stored messages is at most max_history
C28_HistoryBounded ==
    history # Pending => Len(history.messages) <= history.max_history

\* seq ends with the elements of tail, in their order
EndsWith(seq, tail) ==
    /\ Len(tail) <= Len(seq)
    /\ SubSeq(seq, Len(seq) - Len(tail) + 1, Len(seq)) = tail

\* C29: get_messages() is the system message followed by messages that were
\* added, the latest ones in the order they were added, none of them a
\* system message; the stored messages hold no system message
C29_OneSystemMessage ==
    history # Pending =>
        /\ Head(get_messages(history.messages)) = system_message
        /\ EndsWith(history.added, Tail(get_messages(history.messages)))
        /\ \A i \in 1..Len(history.messages) : history.messages[i].role # "system"

(***************************************************************************)
(* SpecClient: CerebrasClient._make_request, one POST after the other      *)
(***************************************************************************)
\* the largest config.api.max_retries followed
MaxRetries == 3

\* what a POST comes to: the status of the response (0: none, the request
\* failed with aiohttp.ClientError or asyncio.TimeoutError) and how reading
\* the body went (response.json() for 200, response.text() for the statuses
\* whose error text is read)
Responses ==
    [status : {200, 500}, body : {"ok", "ClientError", "TimeoutError"}]
    \cup [status : {401, 429}, body : {"unread"}]
    \cup [status : {0}, body : {"ClientError", "TimeoutError"}]

\* the attempt ended in the except clause for
\* (aiohttp.ClientError, asyncio.TimeoutError)
NetworkError(r) == r.body \in {"ClientError", "TimeoutError"}

\* a handling of the response that retries every status but 200
on_response_RetryAll(r, attempt, max_retries) ==
    CASE ~NetworkError(r) /\ r.status = 200 -> Returned("response.json()")
      [] attempt < max_retries -> [st |-> "retry"]
      [] OTHER -> Raised("APIError")

\* the body of the for loop for the response r: the value returned, the
\* exception raised, or "retry" for sleep-and-continue
on_response(r, attempt, max_retries) ==
    CASE NetworkError(r) ->
            IF attempt < max_retries THEN [st |-> "retry"]
            ELSE Raised("APIError: Network error")
      [] r.status = 200 -> Returned("response.json()")
      [] r.status = 401 -> Raised("AuthenticationError: Invalid API key")
      [] r.status = 429 ->
            IF attempt < max_retries THEN [st |-> "retry"]
            ELSE Raised("APIError: Rate limit exceeded")
      [] OTHER -> Raised("APIError: API request failed with status")

InitClient ==
    /\ \E n \in (-1)..MaxRetries :
          client = [max_retries |-> n, attempt |-> 0, pc |-> "for", seen |-> <<>>,
                    outcome |-> Pending]
    /\ CwdIdle /\ PyIdle /\ ConfigIdle /\ ToolCmdIdle /\ HistoryIdle
    /\ FileIdle /\ ShellIdle /\ ValIdle /\ RegIdle /\ ToolIdle /\ IntentIdle

\* async with self._session.post(url, json=payload) as response: ...
Post ==
    /\ client.pc = "for"
    /\ client.attempt <= client.max_retries
    /\ \E r \in Responses :
       \E o \in { on_response(r, client.attempt, client.max_retries) } :
          client' = IF o.st = "retry"
                    THEN [client EXCEPT !.pc = "sleep", !.seen = Append(@, r)]
                    ELSE [client EXCEPT !.pc = "done", !.seen = Append(@, r),
                                        !.outcome = o]
    /\ UNCHANGED <<cwd, python, config, tool_cmd, history>>
    /\ UNCHANGED <<osVars, valVars, regVars, toolVars, intentVars>>

\* await asyncio.sleep(retry_delay * (2 ** attempt)); continue
Sleep ==
    /\ client.pc = "sleep"
    /\ client' = [client EXCEPT !.pc = "for", !.attempt = @ + 1]
    /\ UNCHANGED <<cwd, python, config, tool_cmd, history>>
    /\ UNCHANGED <<osVars, valVars, regVars, toolVars, intentVars>>

\* the for loop has run out: raise APIError("Max retries exceeded")
LoopEnd ==
    /\ client.pc = "for"
    /\ client.attempt > client.max_retries
    /\ client' = [client EXCEPT !.pc = "done",
                     !.outcome = Raised("APIError: Max retries exceeded")]
    /\ UNCHANGED <<cwd, python, config, tool_cmd, history>>
    /\ UNCHANGED <<osVars, valVars, regVars, toolVars, intentVars>>

NextClient == Post \/ Sleep \/ LoopEnd

SpecClient == InitClient /\ [][NextClient]_vars

\* every POST ends, by a response or by the session's total timeout
\* (aiohttp.ClientTimeout(total=config.api.timeout)), and every sleep ends
SpecClientLive == SpecClient /\ WF_vars(NextClient)

\* at most max_retries + 1 POSTs were made; every POST that was followed by
\* another one ended in status 429 or in a network or timeout error; and the
\* request is over exactly with a response (after a 200 whose body was read)
\* or an exception
BoundedRetries ==
    /\ Len(client.seen) <= client.max_retries + 1
    /\ \A i \in 1..(Len(client.seen) - 1) :
          NetworkError(client.seen[i]) \/ client.seen[i].status = 429
    /\ client.pc = "done" =>
          /\ client.outcome.st \in {"returned", "raised"}
          /\ client.outcome.st = "returned" <=>
                /\ Len(client.seen) > 0
                /\ client.seen[Len(client.seen)] = [status |-> 200, body |-> "ok"]
    /\ client.pc # "done" =>
          /\ client.outcome = Pending
          /\ \A i \in 1..Len(client.seen) :
                NetworkError(client.seen[i]) \/ client.seen[i].status = 429

\* C30: _make_request comes to an end, with a response or an error, after at
\* most max_retries + 1 POSTs; only status 429 and network or timeout errors
\* are retried, and only while attempts remain; status 401 and every other
\* status that is not 200 raise at once
C30_BoundedRetries == [](client # Pending => BoundedRetries) /\ <>(client.pc = "done")

\* the request ended after a retried attempt by a status that is not retried
C30_Witness ==
    /\ client.pc = "done"
    /\ Len(client.seen) = 2
    /\ client.seen[1].status = 429
    /\ client.seen[2].status = 401
    /\ client.max_retries = MaxRetries

\* every attempt was used and the last one was rate-limited too
C30_WitnessExhausted ==
    /\ client.pc = "done"
    /\ client.max_retries = 2
    /\ Len(client.seen) = 3
    /\ client.seen[3].status = 429
    /\ client.outcome = Raised("APIError: Rate limit exceeded")

====
